---------------------------- MODULE Spec2Model ----------------------------
(***************************************************************************)
(* Page-type classification and structured-data recommendation of the SEO  *)
(* checker: PageTypeAnalyzer (page-type-analyzer.js) and                   *)
(* StructuredDataRecommender (structured-data-recommender), as called by   *)
(* SEOChecker.checkStructuredData and DetailedAnalyzer.analyzeStructuredData.*)
(*                                                                         *)
(* Representation.                                                         *)
(*  - A JavaScript string that the code searches is the sequence of its    *)
(*    UTF-16 code units (the string is given in a comment).  Strings that  *)
(*    the code only compares or copies (type names, schema names, tags)    *)
(*    are TLA+ strings.                                                    *)
(*  - A JavaScript value that may be null, undefined or an object is a     *)
(*    record with a field js; a property the object does not have is a     *)
(*    field the record does not have.                                      *)
(*  - A call that may throw yields an outcome [ok, val]: ok = FALSE is a   *)
(*    thrown exception.                                                    *)
(*  - Scores are multiples of 0.5 in the code; the model holds them        *)
(*    doubled (score2 = 2 * score), so every weight and bonus is doubled.  *)
(***************************************************************************)
EXTENDS Integers, Sequences, FiniteSets, TLC

VARIABLES
  pc,        \* "idle" | "analyzed" | "recommended" | "generated" | "measured" | ...:
             \* the call that has returned
  doc,       \* analyzePage's first argument $ (NoCall when not called)
  url,       \* analyzePage's second argument
  analysis,  \* outcome of analyzePage
  recIn,     \* generateRecommendations' arguments
  recOut,    \* outcome of generateRecommendations
  rerun,     \* outcome of the same call made a second time (NoCall before it)
  schemaIn,  \* generateSchema's arguments schemaType and pageData, and the day
  schemaOut, \* result of generateSchema
  widthIn,   \* calculateFullWidthLength's argument
  widthOut,  \* its results in SEOChecker and in DetailedAnalyzer, doubled
  seoIn,     \* checkSEO's page
  seoOut,    \* outcome of checkSEO
  fetch      \* fetchHTMLWithPuppeteer: where the call is, its browser and page

vars == <<pc, doc, url, analysis, recIn, recOut, rerun, schemaIn, schemaOut,
          widthIn, widthOut, seoIn, seoOut, fetch>>

---------------------------------------------------------------------------
(* JavaScript values *)

Null == [js |-> "null"]
Undefined == [js |-> "undefined"]
EmptyObject == [js |-> "object"]
NoCall == [js |-> "nocall"]

\* A string and an array
Str(s) == [js |-> "string", v |-> s]
Arr(s) == [js |-> "array", v |-> s]

IsNullish(v) == v = Null \/ v = Undefined

Has(obj, field) == field \in DOMAIN obj

\* A thrown exception (the code only ever throws TypeErrors of the runtime).
Throw == [ok |-> FALSE, error |-> "TypeError"]
Return(v) == [ok |-> TRUE, val |-> v]

---------------------------------------------------------------------------
(* Strings as sequences of UTF-16 code units *)

\* "undefined": what string concatenation and RegExp.test make of undefined
UndefinedText == <<117, 110, 100, 101, 102, 105, 110, 101, 100>>

\* text + ' ' + text
Space == <<32>>

StartsAt(text, needle, i) ==
  /\ i >= 1
  /\ i + Len(needle) - 1 <= Len(text)
  /\ \A j \in 1..Len(needle) : text[i + j - 1] = needle[j]

\* String.prototype.includes
includes(text, needle) ==
  \E i \in 1..(Len(text) - Len(needle) + 1) : StartsAt(text, needle, i)

\* String.prototype.toLowerCase on the letters the texts of the model hold:
\* A-Z and the full-width forms of A-Z; every other code unit of the model's
\* texts has no lower-case form.
toLowerCaseUnit(c) ==
  IF (c >= 65 /\ c <= 90) \/ (c >= 65313 /\ c <= 65338) THEN c + 32 ELSE c

toLowerCase(text) == [i \in 1..Len(text) |-> toLowerCaseUnit(text[i])]

\* RegExp.test for a pattern that is an alternation of literal words
testAny(text, words) == \E k \in 1..Len(words) : includes(text, words[k])

---------------------------------------------------------------------------
(* StructuredDataRecommender: configuration *)

\* this.recommendations: the three schema tiers of each page type
recommendations ==
  [Article |->
     [primary |-> <<"Article", "NewsArticle", "BlogPosting">>,
      secondary |-> <<"Organization", "Person", "BreadcrumbList">>,
      optional |-> <<"Comment", "Rating", "Review">>],
   Product |->
     [primary |-> <<"Product">>,
      secondary |-> <<"Organization", "Offer", "Review">>,
      optional |-> <<"AggregateRating", "Brand", "BreadcrumbList">>],
   LocalBusiness |->
     [primary |-> <<"LocalBusiness">>,
      secondary |-> <<"Organization", "PostalAddress", "ContactPoint">>,
      optional |-> <<"OpeningHoursSpecification", "GeoCoordinates", "Review">>],
   Recipe |->
     [primary |-> <<"Recipe">>,
      secondary |-> <<"Person", "Organization", "NutritionInformation">>,
      optional |-> <<"AggregateRating", "Review", "Video">>],
   Event |->
     [primary |-> <<"Event">>,
      secondary |-> <<"Place", "Organization", "Offer">>,
      optional |-> <<"Person", "PostalAddress", "VirtualLocation">>],
   FAQ |->
     [primary |-> <<"FAQPage">>,
      secondary |-> <<"Question", "Answer">>,
      optional |-> <<"Organization", "BreadcrumbList">>],
   HowTo |->
     [primary |-> <<"HowTo">>,
      secondary |-> <<"HowToStep", "HowToSupply", "HowToTool">>,
      optional |-> <<"Person", "Organization", "Video">>],
   Review |->
     [primary |-> <<"Review">>,
      secondary |-> <<"Product", "Organization", "Rating">>,
      optional |-> <<"Person", "AggregateRating", "CreativeWork">>],
   JobPosting |->
     [primary |-> <<"JobPosting">>,
      secondary |-> <<"Organization", "Place">>,
      optional |-> <<"PostalAddress", "MonetaryAmount",
                     "EducationalOccupationalCredential">>],
   Course |->
     [primary |-> <<"Course", "EducationEvent">>,
      secondary |-> <<"Organization", "Person", "Place">>,
      optional |-> <<"AggregateRating", "Review", "Offer">>]]

\* The page types that have an entry of their own in this.recommendations
RecommendedPageTypes == DOMAIN recommendations

\* Property names every object literal inherits from Object.prototype:
\* this.recommendations[name] is then an inherited member (truthy, and with
\* no primary, secondary or optional property), not undefined.
ObjectPrototypeKeys ==
  {"constructor", "toString", "valueOf", "hasOwnProperty", "__proto__"}

\* this.businessTypes, in the order Object.entries lists them
businessTypes ==
  <<
    [type |-> "Restaurant", keywords |-> <<
        <<12524, 12473, 12488, 12521, 12531>>,  \* レストラン
        <<12459, 12501, 12455>>,  \* カフェ
        <<12459, 12524, 12540>>,  \* カレー
        <<39135, 12409, 29289>>,  \* 食べ物
        <<39154, 39135, 24215>>  \* 飲食店
      >>],
    [type |-> "Store", keywords |-> <<
        <<12473, 12488, 12450>>,  \* ストア
        <<12471, 12519, 12483, 12503>>,  \* ショップ
        <<24215, 33303>>,  \* 店舗
        <<36009, 22770>>,  \* 販売
        <<23567, 22770>>  \* 小売
      >>],
    [type |-> "Hotel", keywords |-> <<
        <<12507, 12486, 12523>>,  \* ホテル
        <<23487, 27850>>,  \* 宿泊
        <<26053, 39208>>,  \* 旅館
        <<12522, 12478, 12540, 12488>>  \* リゾート
      >>],
    [type |-> "Hospital", keywords |-> <<
        <<30149, 38498>>,  \* 病院
        <<12463, 12522, 12491, 12483, 12463>>,  \* クリニック
        <<35386, 30274, 25152>>,  \* 診療所
        <<21307, 30274>>  \* 医療
      >>],
    [type |-> "School", keywords |-> <<
        <<23398, 26657>>,  \* 学校
        <<22823, 23398>>,  \* 大学
        <<22654>>,  \* 塾
        <<25945, 32946>>,  \* 教育
        <<12473, 12463, 12540, 12523>>  \* スクール
      >>],
    [type |-> "Gym", keywords |-> <<
        <<12472, 12512>>,  \* ジム
        <<12501, 12451, 12483, 12488, 12493, 12473>>,  \* フィットネス
        <<12473, 12509, 12540, 12484, 12463, 12521, 12502>>  \* スポーツクラブ
      >>],
    [type |-> "BeautySalon", keywords |-> <<
        <<32654, 23481, 23460>>,  \* 美容室
        <<12469, 12525, 12531>>,  \* サロン
        <<12456, 12473, 12486>>,  \* エステ
        <<32654, 23481>>  \* 美容
      >>]
  >>

\* The words of hasBusinessHoursInfo's pattern
BusinessHoursWords ==
  <<
    <<21942, 26989, 26178, 38291>>,  \* 営業時間
    <<38283, 24215>>,  \* 開店
    <<38281, 24215>>,  \* 閉店
    <<23450, 20241, 26085>>  \* 定休日
  >>

\* The words of hasLocationInfo's pattern
LocationWords ==
  <<
    <<20303, 25152>>,  \* 住所
    <<25152, 22312, 22320>>,  \* 所在地
    <<12450, 12463, 12475, 12473>>,  \* アクセス
    <<22320, 22259>>  \* 地図
  >>

---------------------------------------------------------------------------
(* StructuredDataRecommender: helper tables.  The Japanese texts of the    *)
(* description tables are named by an English gloss; the code only copies  *)
(* them into the reason of an item.                                        *)

getSchemaDescription(schema) ==
  CASE schema = "Article" -> "news article or blog post"
    [] schema = "Product" -> "product information"
    [] schema = "LocalBusiness" -> "shop or office information"
    [] schema = "Recipe" -> "recipe information"
    [] schema = "Event" -> "event information"
    [] schema = "FAQPage" -> "frequently asked questions page"
    [] schema = "HowTo" -> "how-to or procedure"
    [] schema = "Review" -> "review or rating information"
    [] schema = "JobPosting" -> "job offer information"
    [] schema = "Course" -> "course information"
    [] OTHER -> "content"

getSchemaValue(schema) ==
  CASE schema = "Organization" -> "raises the trust in the site"
    [] schema = "Person" -> "makes the author clear"
    [] schema = "BreadcrumbList" -> "improves the navigation information"
    [] schema = "Rating" -> "shows the rating"
    [] schema = "AggregateRating" -> "shows the average rating"
    [] schema = "Offer" -> "shows price and purchase information"
    [] OTHER -> "an SEO effect can be expected"

getSchemaOptionalValue(schema) ==
  CASE schema = "Comment" -> "structures the comments"
    [] schema = "Video" -> "makes video content recognised"
    [] schema = "Brand" -> "makes the brand clear"
    [] schema = "ContactPoint" -> "orders the contact information"
    [] OTHER -> "offers added value"

getSchemaDifficulty(schema) ==
  CASE schema \in {"Article", "FAQPage", "Review"} -> "easy"
    [] schema \in {"Product", "LocalBusiness", "Event", "JobPosting", "Course"}
         -> "medium"
    [] schema \in {"Recipe", "HowTo"} -> "hard"
    [] OTHER -> "medium"

getSEOValue(schema) ==
  CASE schema = "Article" -> 85
    [] schema = "Product" -> 90
    [] schema = "LocalBusiness" -> 88
    [] schema = "Recipe" -> 92
    [] schema = "Event" -> 85
    [] schema = "FAQPage" -> 80
    [] schema = "HowTo" -> 87
    [] schema = "Review" -> 83
    [] schema = "JobPosting" -> 85
    [] schema = "Course" -> 82
    [] OTHER -> 75

\* '30分' is "30min", '1時間' "1h", '1-2時間' "1-2h", '2-3時間' "2-3h"
getImplementationTime(schema) ==
  CASE schema \in {"Article", "FAQPage", "Review"} -> "30min"
    [] schema \in {"Product", "Course"} -> "1-2h"
    [] schema \in {"LocalBusiness", "Event", "JobPosting"} -> "1h"
    [] schema \in {"Recipe", "HowTo"} -> "2-3h"
    [] OTHER -> "1h"

getValidationSteps ==
  <<[step |-> 1, url |-> "https://search.google.com/test/rich-results"],
    [step |-> 2, url |-> "https://validator.schema.org/"],
    [step |-> 3, url |-> "https://search.google.com/search-console"],
    [step |-> 4]>>

---------------------------------------------------------------------------
(* StructuredDataRecommender: the steps of generateRecommendations *)

\* getBaseRecommendations with this.recommendations.pageType for
\* this.recommendations[pageType]: no such property, always Article
getBaseRecommendations_DotLookup(pageType) == recommendations.Article

\* getBaseRecommendations with the optional tier read from
\* recommendation.secondary
getBaseRecommendations_CopiedTier(pageType) ==
  LET recommendation ==
        IF pageType \in RecommendedPageTypes
          THEN recommendations[pageType] ELSE recommendations.Article
  IN  [primary |-> recommendation.primary,
       secondary |-> recommendation.secondary,
       optional |-> recommendation.secondary]

\* this.recommendations[pageType] || this.recommendations.Article, and then
\* recommendation.primary || [] for each tier
getBaseRecommendations(pageType) ==
  IF pageType \in RecommendedPageTypes
    THEN recommendations[pageType]
    ELSE IF pageType \in ObjectPrototypeKeys
      THEN [primary |-> <<>>, secondary |-> <<>>, optional |-> <<>>]
      ELSE recommendations.Article

\* The callback of jsonLd.map: schema.data?.['@type'], its first element when
\* it is an array
entryType(schema) ==
  LET data == IF Has(schema, "data") THEN schema.data ELSE Undefined
      type == IF IsNullish(data) \/ ~Has(data, "type")
                THEN Undefined ELSE data.type
  IN  IF type.js = "array"
        THEN IF Len(type.v) > 0
               THEN [js |-> "string", v |-> type.v[1]] ELSE Undefined
        ELSE type

\* filter(Boolean) on the mapped types
Truthy(v) == ~IsNullish(v) /\ ~(v.js = "string" /\ v.v = "")

findMissingSchemas(recs, existingSchemas) ==
  IF IsNullish(existingSchemas) THEN Throw
  ELSE
    LET jsonLd == IF Has(existingSchemas, "jsonLd")
                    THEN existingSchemas.jsonLd ELSE Undefined
    IN  IF ~IsNullish(jsonLd) /\ jsonLd.js # "array" THEN Throw
        ELSE IF ~IsNullish(jsonLd)
                /\ \E i \in 1..Len(jsonLd.v) : IsNullish(jsonLd.v[i]) THEN Throw
        ELSE
          LET existing ==
                IF IsNullish(jsonLd) THEN {}
                ELSE {entryType(jsonLd.v[i]).v :
                        i \in {j \in 1..Len(jsonLd.v) :
                                 Truthy(entryType(jsonLd.v[j]))}}
              absent(schema) == schema \notin existing
          IN  Return([primary |-> SelectSeq(recs.primary, absent),
                      secondary |-> SelectSeq(recs.secondary, absent),
                      optional |-> SelectSeq(recs.optional, absent)])

prioritizeRecommendations(missingSchemas, pageData) ==
  [missing |->
     [i \in 1..Len(missingSchemas.primary) |->
        LET schema == missingSchemas.primary[i]
        IN  [schema |-> schema,
             priority |-> "critical",
             reason |-> [template |-> "is required as", schema |-> schema,
                         text |-> getSchemaDescription(schema)],
             impact |-> "high",
             difficulty |-> getSchemaDifficulty(schema),
             seoValue |-> getSEOValue(schema)]],
   improvements |->
     [i \in 1..Len(missingSchemas.secondary) |->
        LET schema == missingSchemas.secondary[i]
        IN  [schema |-> schema,
             priority |-> "high",
             reason |-> [template |-> "adding it", schema |-> schema,
                         text |-> getSchemaValue(schema)],
             impact |-> "medium",
             difficulty |-> getSchemaDifficulty(schema),
             seoValue |-> getSEOValue(schema)]],
   optional |->
     [i \in 1..Len(missingSchemas.optional) |->
        LET schema == missingSchemas.optional[i]
        IN  [schema |-> schema,
             priority |-> "low",
             reason |-> [template |-> "it", schema |-> schema,
                         text |-> getSchemaOptionalValue(schema)],
             impact |-> "low",
             difficulty |-> getSchemaDifficulty(schema),
             seoValue |-> getSEOValue(schema)]]]

\* One entry of the plan: the same fields in the three buckets, the title
\* differing by its verb
suggestion(item, verb) ==
  [schema |-> item.schema,
   title |-> [schema |-> item.schema, verb |-> verb],
   description |-> item.reason,
   estimatedTime |-> getImplementationTime(item.schema),
   requiredData |-> item.schema,
   template |-> item.schema,
   examples |-> <<item.schema>>,
   benefits |-> <<item.schema>>]

generateImplementationSuggestions(prioritizedList, pageData, pageType) ==
  [immediate |->
     [i \in 1..Len(prioritizedList.missing) |->
        suggestion(prioritizedList.missing[i], "implement")],
   shortTerm |->
     [i \in 1..Len(prioritizedList.improvements) |->
        suggestion(prioritizedList.improvements[i], "add")],
   longTerm |->
     [i \in 1..Len(prioritizedList.optional) |->
        suggestion(prioritizedList.optional[i], "consider")]]

\* pageData.title, pageData.bodyText as the string a concatenation or a
\* RegExp.test makes of them
textOf(obj, field) == IF Has(obj, field) THEN obj[field] ELSE UndefinedText

\* A detection that returns the last category with a keyword in the text
firstBusinessType_LastMatch(text, k) ==
  LET hit == {n \in k..Len(businessTypes) :
                \E m \in 1..Len(businessTypes[n].keywords) :
                  includes(text, toLowerCase(businessTypes[n].keywords[m]))}
  IN  IF hit = {} THEN Null
      ELSE [js |-> "string",
            v |-> businessTypes[CHOOSE n \in hit : \A m \in hit : m <= n].type]

RECURSIVE firstBusinessType(_, _)
firstBusinessType(text, k) ==
  IF k > Len(businessTypes) THEN Null
  ELSE IF \E n \in 1..Len(businessTypes[k].keywords) :
            includes(text, toLowerCase(businessTypes[k].keywords[n]))
    THEN [js |-> "string", v |-> businessTypes[k].type]
    ELSE firstBusinessType(text, k + 1)

detectBusinessType(pageData) ==
  IF IsNullish(pageData) THEN Throw
  ELSE Return(firstBusinessType(
         toLowerCase(textOf(pageData, "title") \o Space
                     \o textOf(pageData, "bodyText")), 1))

hasBusinessHoursInfo(pageData) ==
  testAny(textOf(pageData, "bodyText"), BusinessHoursWords)

hasLocationInfo(pageData) ==
  testAny(textOf(pageData, "bodyText"), LocationWords)

getBusinessSpecificRecommendations(pageType, pageData) ==
  IF pageType # "LocalBusiness" THEN Return(<<>>)
  ELSE
    LET businessType == detectBusinessType(pageData)
    IN  IF ~businessType.ok THEN Throw
        ELSE Return(
          (IF businessType.val # Null
             THEN <<[type |-> "BusinessType", suggestion |-> businessType.val.v]>>
             ELSE <<>>)
          \o (IF hasBusinessHoursInfo(pageData)
                THEN <<[type |-> "OpeningHours"]>> ELSE <<>>)
          \o (IF hasLocationInfo(pageData)
                THEN <<[type |-> "GeoCoordinates"]>> ELSE <<>>))

Min(a, b) == IF a < b THEN a ELSE b

\* calculateExpectedBenefits that counts totalItems, the items of the three
\* lists, as the critical ones
calculateExpectedBenefits_TotalItems(prioritizedList) ==
  LET criticalItems == Len(prioritizedList.missing)
                       + Len(prioritizedList.improvements)
                       + Len(prioritizedList.optional)
      highItems == Len(prioritizedList.improvements)
  IN  [richSnippets |->
         [probability |-> Min(90, criticalItems * 30 + highItems * 15)],
       searchRanking |->
         [improvement |-> Min(20, criticalItems * 5 + highItems * 3)],
       clickThroughRate |->
         [improvement |-> Min(25, criticalItems * 8 + highItems * 5)],
       localSearch |->
         [visibility |->
            IF \E i \in 1..Len(prioritizedList.missing) :
                 prioritizedList.missing[i].schema
                   \in {"LocalBusiness", "Organization"}
              THEN 40 ELSE 10]]

calculateExpectedBenefits(prioritizedList) ==
  LET criticalItems == Len(prioritizedList.missing)
      highItems == Len(prioritizedList.improvements)
  IN  [richSnippets |->
         [probability |-> Min(90, criticalItems * 30 + highItems * 15)],
       searchRanking |->
         [improvement |-> Min(20, criticalItems * 5 + highItems * 3)],
       clickThroughRate |->
         [improvement |-> Min(25, criticalItems * 8 + highItems * 5)],
       localSearch |->
         [visibility |->
            IF \E i \in 1..Len(prioritizedList.missing) :
                 prioritizedList.missing[i].schema
                   \in {"LocalBusiness", "Organization"}
              THEN 40 ELSE 10]]

getDefaultRecommendations ==
  [pageType |-> "Article",
   confidence |-> 0,
   recommendations |->
     [missing |-> <<[schema |-> "Article",
                     priority |-> "critical",
                     reason |-> [template |-> "default recommendation"],
                     impact |-> "high"]>>,
      improvements |-> <<>>,
      optional |-> <<>>],
   implementation |-> [immediate |-> <<>>, shortTerm |-> <<>>, longTerm |-> <<>>],
   businessSpecific |-> <<>>,
   expectedBenefits |-> [richSnippets |-> [probability |-> 30]],
   validationSteps |-> getValidationSteps]

\* The body of generateRecommendations' try block
tryGenerateRecommendations(pageAnalysis, existingSchemas, pageData) ==
  IF IsNullish(pageAnalysis) THEN Throw
  ELSE
    LET primaryType ==
          IF Has(pageAnalysis, "primaryType") /\ pageAnalysis.primaryType # ""
            THEN pageAnalysis.primaryType ELSE "Article"
        confidence ==
          IF Has(pageAnalysis, "confidence") THEN pageAnalysis.confidence ELSE 0
        baseRecommendations == getBaseRecommendations(primaryType)
        missingSchemas == findMissingSchemas(baseRecommendations, existingSchemas)
    IN  IF ~missingSchemas.ok THEN Throw
        ELSE
          LET prioritizedList ==
                prioritizeRecommendations(missingSchemas.val, pageData)
              implementationSuggestions ==
                generateImplementationSuggestions(
                  prioritizedList, pageData, primaryType)
              businessSpecific ==
                getBusinessSpecificRecommendations(primaryType, pageData)
          IN  IF ~businessSpecific.ok THEN Throw
              ELSE Return(
                [pageType |-> primaryType,
                 confidence |-> confidence,
                 recommendations |->
                   [missing |-> prioritizedList.missing,
                    improvements |-> prioritizedList.improvements,
                    optional |-> prioritizedList.optional],
                 implementation |-> implementationSuggestions,
                 businessSpecific |-> businessSpecific.val,
                 expectedBenefits |-> calculateExpectedBenefits(prioritizedList),
                 validationSteps |-> getValidationSteps])

\* generateRecommendations without its catch block
generateRecommendations_NoCatch(pageAnalysis, existingSchemasArg, pageDataArg) ==
  tryGenerateRecommendations(
    pageAnalysis,
    IF existingSchemasArg = Undefined THEN EmptyObject ELSE existingSchemasArg,
    IF pageDataArg = Undefined THEN EmptyObject ELSE pageDataArg)

\* generateRecommendations(pageAnalysis, existingSchemas = {}, pageData = {}):
\* an argument that is undefined takes its default; the catch returns the
\* default recommendations
generateRecommendations(pageAnalysis, existingSchemasArg, pageDataArg) ==
  LET existingSchemas ==
        IF existingSchemasArg = Undefined THEN EmptyObject ELSE existingSchemasArg
      pageData == IF pageDataArg = Undefined THEN EmptyObject ELSE pageDataArg
      body == tryGenerateRecommendations(pageAnalysis, existingSchemas, pageData)
  IN  IF body.ok THEN body ELSE Return(getDefaultRecommendations)

---------------------------------------------------------------------------
(* PageTypeAnalyzer: configuration *)

\* this.patterns: the signature of each page type
patterns ==
  [Article |->
     [keywords |-> <<
          <<35352, 20107>>,  \* 記事
          <<12502, 12525, 12464>>,  \* ブログ
          <<12491, 12517, 12540, 12473>>,  \* ニュース
          <<25237, 31295>>,  \* 投稿
          <<12467, 12521, 12512>>,  \* コラム
          <<12524, 12509, 12540, 12488>>,  \* レポート
          <<35299, 35500>>  \* 解説
        >>,
      urlPatterns |-> <<
          <<47, 98, 108, 111, 103, 47>>,  \* /blog/
          <<47, 110, 101, 119, 115, 47>>,  \* /news/
          <<47, 97, 114, 116, 105, 99, 108, 101, 47>>,  \* /article/
          <<47, 112, 111, 115, 116, 47>>,  \* /post/
          <<47, 99, 111, 108, 117, 109, 110, 47>>  \* /column/
        >>,
      titlePatterns |-> <<
          <<65374, 12395, 12388, 12356, 12390>>,  \* ～について
          <<65374, 12392, 12399>>,  \* ～とは
          <<65374, 12434, 35299, 35500>>,  \* ～を解説
          <<65374, 12398, 12414, 12392, 12417>>  \* ～のまとめ
        >>,
      contentPatterns |-> <<
          <<20844, 38283, 26085>>,  \* 公開日
          <<26356, 26032, 26085>>,  \* 更新日
          <<22519, 31558, 32773>>,  \* 執筆者
          <<33879, 32773>>,  \* 著者
          <<12471, 12455, 12450>>,  \* シェア
          <<12356, 12356, 12397>>  \* いいね
        >>],
   Product |->
     [keywords |-> <<
          <<21830, 21697>>,  \* 商品
          <<35069, 21697>>,  \* 製品
          <<20385, 26684>>,  \* 価格
          <<36092, 20837>>,  \* 購入
          <<22312, 24235>>,  \* 在庫
          <<12524, 12499, 12517, 12540>>,  \* レビュー
          <<35413, 20385>>,  \* 評価
          <<12459, 12540, 12488>>,  \* カート
          <<36865, 26009>>  \* 送料
        >>,
      urlPatterns |-> <<
          <<47, 112, 114, 111, 100, 117, 99, 116, 47>>,  \* /product/
          <<47, 105, 116, 101, 109, 47>>,  \* /item/
          <<47, 103, 111, 111, 100, 115, 47>>,  \* /goods/
          <<47, 115, 104, 111, 112, 47>>,  \* /shop/
          <<47, 115, 116, 111, 114, 101, 47>>  \* /store/
        >>,
      titlePatterns |-> <<
          <<65374, 12434, 36092, 20837>>,  \* ～を購入
          <<65374, 12398, 20385, 26684>>,  \* ～の価格
          <<65374, 12398, 12524, 12499, 12517, 12540>>,  \* ～のレビュー
          <<20385, 26684, 65306>>,  \* 価格：
          <<65509>>  \* ￥
        >>,
      contentPatterns |-> <<
          <<20385, 26684>>,  \* 価格
          <<22312, 24235>>,  \* 在庫
          <<12459, 12540, 12488, 12395, 20837, 12428, 12427>>,  \* カートに入れる
          <<36092, 20837, 12377, 12427>>,  \* 購入する
          <<36865, 26009>>,  \* 送料
          <<37197, 36865>>,  \* 配送
          <<20445, 35388>>  \* 保証
        >>],
   LocalBusiness |->
     [keywords |-> <<
          <<24215, 33303>>,  \* 店舗
          <<21942, 26989, 26178, 38291>>,  \* 営業時間
          <<20303, 25152>>,  \* 住所
          <<38651, 35441, 30058, 21495>>,  \* 電話番号
          <<12450, 12463, 12475, 12473>>,  \* アクセス
          <<22320, 22259>>,  \* 地図
          <<39376, 36554, 22580>>,  \* 駐車場
          <<20104, 32004>>  \* 予約
        >>,
      urlPatterns |-> <<
          <<47, 99, 111, 109, 112, 97, 110, 121, 47>>,  \* /company/
          <<47, 97, 98, 111, 117, 116, 47>>,  \* /about/
          <<47, 99, 111, 110, 116, 97, 99, 116, 47>>,  \* /contact/
          <<47, 97, 99, 99, 101, 115, 115, 47>>,  \* /access/
          <<47, 115, 104, 111, 112, 47>>  \* /shop/
        >>,
      titlePatterns |-> <<
          <<20250, 31038, 27010, 35201>>,  \* 会社概要
          <<24215, 33303, 24773, 22577>>,  \* 店舗情報
          <<12450, 12463, 12475, 12473>>,  \* アクセス
          <<21942, 26989, 26178, 38291>>,  \* 営業時間
          <<65374, 24215>>  \* ～店
        >>,
      contentPatterns |-> <<
          <<21942, 26989, 26178, 38291>>,  \* 営業時間
          <<23450, 20241, 26085>>,  \* 定休日
          <<20303, 25152>>,  \* 住所
          <<38651, 35441>>,  \* 電話
          <<84, 69, 76>>,  \* TEL
          <<22320, 22259>>,  \* 地図
          <<12450, 12463, 12475, 12473>>  \* アクセス
        >>],
   Recipe |->
     [keywords |-> <<
          <<12524, 12471, 12500>>,  \* レシピ
          <<26009, 29702>>,  \* 料理
          <<26448, 26009>>,  \* 材料
          <<20316, 12426, 26041>>,  \* 作り方
          <<35519, 29702>>,  \* 調理
          <<25163, 38918>>,  \* 手順
          <<20998, 37327>>,  \* 分量
          <<35519, 29702, 26178, 38291>>  \* 調理時間
        >>,
      urlPatterns |-> <<
          <<47, 114, 101, 99, 105, 112, 101, 47>>,  \* /recipe/
          <<47, 99, 111, 111, 107, 105, 110, 103, 47>>,  \* /cooking/
          <<47, 102, 111, 111, 100, 47>>  \* /food/
        >>,
      titlePatterns |-> <<
          <<65374, 12398, 12524, 12471, 12500>>,  \* ～のレシピ
          <<65374, 12398, 20316, 12426, 26041>>,  \* ～の作り方
          <<31777, 21336>>,  \* 簡単
          <<25163, 20316, 12426>>  \* 手作り
        >>,
      contentPatterns |-> <<
          <<26448, 26009>>,  \* 材料
          <<20998, 37327>>,  \* 分量
          <<25163, 38918>>,  \* 手順
          <<35519, 29702, 26178, 38291>>,  \* 調理時間
          <<20154, 21069>>,  \* 人前
          <<12459, 12525, 12522, 12540>>,  \* カロリー
          <<26628, 39178>>  \* 栄養
        >>],
   Event |->
     [keywords |-> <<
          <<12452, 12505, 12531, 12488>>,  \* イベント
          <<38283, 20652>>,  \* 開催
          <<26085, 26178>>,  \* 日時
          <<22580, 25152>>,  \* 場所
          <<21442, 21152>>,  \* 参加
          <<12481, 12465, 12483, 12488>>,  \* チケット
          <<20104, 32004>>,  \* 予約
          <<20250, 22580>>  \* 会場
        >>,
      urlPatterns |-> <<
          <<47, 101, 118, 101, 110, 116, 47>>,  \* /event/
          <<47, 115, 101, 109, 105, 110, 97, 114, 47>>,  \* /seminar/
          <<47, 99, 111, 110, 102, 101, 114, 101, 110, 99, 101, 47>>,  \* /conference/
          <<47, 119, 111, 114, 107, 115, 104, 111, 112, 47>>  \* /workshop/
        >>,
      titlePatterns |-> <<
          <<38283, 20652, 12398, 12362, 30693, 12425, 12379>>,  \* 開催のお知らせ
          <<12452, 12505, 12531, 12488, 24773, 22577>>,  \* イベント情報
          <<12475, 12511, 12490, 12540>>,  \* セミナー
          <<35611, 24231>>  \* 講座
        >>,
      contentPatterns |-> <<
          <<38283, 20652, 26085>>,  \* 開催日
          <<38283, 20652, 26178, 38291>>,  \* 開催時間
          <<20250, 22580>>,  \* 会場
          <<21442, 21152, 36027>>,  \* 参加費
          <<23450, 21729>>,  \* 定員
          <<12362, 30003, 36796, 12415>>  \* お申込み
        >>],
   FAQ |->
     [keywords |-> <<
          <<12424, 12367, 12354, 12427, 36074, 21839>>,  \* よくある質問
          <<70, 65, 81>>,  \* FAQ
          <<81, 38, 65>>,  \* Q&A
          <<36074, 21839>>,  \* 質問
          <<22238, 31572>>,  \* 回答
          <<12504, 12523, 12503>>,  \* ヘルプ
          <<12469, 12509, 12540, 12488>>  \* サポート
        >>,
      urlPatterns |-> <<
          <<47, 102, 97, 113, 47>>,  \* /faq/
          <<47, 104, 101, 108, 112, 47>>,  \* /help/
          <<47, 115, 117, 112, 112, 111, 114, 116, 47>>,  \* /support/
          <<47, 113, 97, 47>>  \* /qa/
        >>,
      titlePatterns |-> <<
          <<12424, 12367, 12354, 12427, 36074, 21839>>,  \* よくある質問
          <<70, 65, 81>>,  \* FAQ
          <<81, 38, 65>>,  \* Q&A
          <<12504, 12523, 12503>>  \* ヘルプ
        >>,
      contentPatterns |-> <<
          <<81, 58>>,  \* Q:
          <<65, 58>>,  \* A:
          <<36074, 21839, 65306>>,  \* 質問：
          <<22238, 31572, 65306>>,  \* 回答：
          <<12424, 12367, 12354, 12427, 36074, 21839>>  \* よくある質問
        >>],
   HowTo |->
     [keywords |-> <<
          <<26041, 27861>>,  \* 方法
          <<12420, 12426, 26041>>,  \* やり方
          <<25163, 38918>>,  \* 手順
          <<12473, 12486, 12483, 12503>>,  \* ステップ
          <<12460, 12452, 12489>>,  \* ガイド
          <<12481, 12517, 12540, 12488, 12522, 12450, 12523>>,  \* チュートリアル
          <<20351, 12356, 26041>>  \* 使い方
        >>,
      urlPatterns |-> <<
          <<47, 104, 111, 119, 116, 111, 47>>,  \* /howto/
          <<47, 103, 117, 105, 100, 101, 47>>,  \* /guide/
          <<47, 116, 117, 116, 111, 114, 105, 97, 108, 47>>,  \* /tutorial/
          <<47, 109, 97, 110, 117, 97, 108, 47>>  \* /manual/
        >>,
      titlePatterns |-> <<
          <<65374, 12398, 26041, 27861>>,  \* ～の方法
          <<65374, 12398, 12420, 12426, 26041>>,  \* ～のやり方
          <<65374, 12460, 12452, 12489>>,  \* ～ガイド
          <<12473, 12486, 12483, 12503>>,  \* ステップ
          <<25163, 38918>>  \* 手順
        >>,
      contentPatterns |-> <<
          <<12473, 12486, 12483, 12503>>,  \* ステップ
          <<25163, 38918>>,  \* 手順
          <<26041, 27861>>,  \* 方法
          <<83, 84, 69, 80>>,  \* STEP
          <<12414, 12378>>,  \* まず
          <<27425, 12395>>,  \* 次に
          <<26368, 24460, 12395>>  \* 最後に
        >>],
   Review |->
     [keywords |-> <<
          <<12524, 12499, 12517, 12540>>,  \* レビュー
          <<35413, 20385>>,  \* 評価
          <<21475, 12467, 12511>>,  \* 口コミ
          <<24863, 24819>>,  \* 感想
          <<20307, 39443, 35527>>,  \* 体験談
          <<35413, 21028>>,  \* 評判
          <<26143>>  \* 星
        >>,
      urlPatterns |-> <<
          <<47, 114, 101, 118, 105, 101, 119, 47>>,  \* /review/
          <<47, 114, 97, 116, 105, 110, 103, 47>>,  \* /rating/
          <<47, 101, 118, 97, 108, 117, 97, 116, 105, 111, 110, 47>>  \* /evaluation/
        >>,
      titlePatterns |-> <<
          <<12524, 12499, 12517, 12540>>,  \* レビュー
          <<35413, 20385>>,  \* 評価
          <<21475, 12467, 12511>>,  \* 口コミ
          <<20307, 39443, 35527>>,  \* 体験談
          <<65374, 12434, 35430, 12375, 12390, 12415, 12383>>  \* ～を試してみた
        >>,
      contentPatterns |-> <<
          <<35413, 20385>>,  \* 評価
          <<9733>>,  \* ★
          <<9734>>,  \* ☆
          <<26143>>,  \* 星
          <<28857, 25968>>,  \* 点数
          <<12362, 12377, 12377, 12417>>,  \* おすすめ
          <<12513, 12522, 12483, 12488>>,  \* メリット
          <<12487, 12513, 12522, 12483, 12488>>  \* デメリット
        >>],
   JobPosting |->
     [keywords |-> <<
          <<27714, 20154>>,  \* 求人
          <<25505, 29992>>,  \* 採用
          <<21215, 38598>>,  \* 募集
          <<20181, 20107>>,  \* 仕事
          <<36578, 32887>>,  \* 転職
          <<23601, 32887>>,  \* 就職
          <<32102, 19982>>,  \* 給与
          <<21220, 21209, 22320>>  \* 勤務地
        >>,
      urlPatterns |-> <<
          <<47, 106, 111, 98, 47>>,  \* /job/
          <<47, 99, 97, 114, 101, 101, 114, 47>>,  \* /career/
          <<47, 114, 101, 99, 114, 117, 105, 116, 47>>,  \* /recruit/
          <<47, 104, 105, 114, 105, 110, 103, 47>>  \* /hiring/
        >>,
      titlePatterns |-> <<
          <<27714, 20154, 24773, 22577>>,  \* 求人情報
          <<25505, 29992, 24773, 22577>>,  \* 採用情報
          <<21215, 38598, 35201, 38917>>,  \* 募集要項
          <<27491, 31038, 21729>>,  \* 正社員
          <<12450, 12523, 12496, 12452, 12488>>  \* アルバイト
        >>,
      contentPatterns |-> <<
          <<21215, 38598, 35201, 38917>>,  \* 募集要項
          <<32102, 19982>>,  \* 給与
          <<21220, 21209, 22320>>,  \* 勤務地
          <<21220, 21209, 26178, 38291>>,  \* 勤務時間
          <<24540, 21215, 36039, 26684>>,  \* 応募資格
          <<31119, 21033, 21402, 29983>>  \* 福利厚生
        >>],
   Course |->
     [keywords |-> <<
          <<35611, 24231>>,  \* 講座
          <<12467, 12540, 12473>>,  \* コース
          <<25480, 26989>>,  \* 授業
          <<23398, 32722>>,  \* 学習
          <<25945, 32946>>,  \* 教育
          <<12473, 12463, 12540, 12523>>,  \* スクール
          <<30740, 20462>>,  \* 研修
          <<12459, 12522, 12461, 12517, 12521, 12512>>  \* カリキュラム
        >>,
      urlPatterns |-> <<
          <<47, 99, 111, 117, 114, 115, 101, 47>>,  \* /course/
          <<47, 99, 108, 97, 115, 115, 47>>,  \* /class/
          <<47, 116, 114, 97, 105, 110, 105, 110, 103, 47>>,  \* /training/
          <<47, 101, 100, 117, 99, 97, 116, 105, 111, 110, 47>>  \* /education/
        >>,
      titlePatterns |-> <<
          <<35611, 24231>>,  \* 講座
          <<12467, 12540, 12473>>,  \* コース
          <<30740, 20462>>,  \* 研修
          <<12473, 12463, 12540, 12523>>,  \* スクール
          <<65374, 12434, 23398, 12406>>  \* ～を学ぶ
        >>,
      contentPatterns |-> <<
          <<12459, 12522, 12461, 12517, 12521, 12512>>,  \* カリキュラム
          <<23398, 32722, 20869, 23481>>,  \* 学習内容
          <<26399, 38291>>,  \* 期間
          <<21463, 35611, 26009>>,  \* 受講料
          <<35611, 24107>>,  \* 講師
          <<36039, 26684>>  \* 資格
        >>]]

\* hasPriceElements
priceSelectors ==
  <<
    [kind |-> "classContains", arg |-> <<112, 114, 105, 99, 101>>],  \* [class*="price"]
    [kind |-> "idContains", arg |-> <<112, 114, 105, 99, 101>>],  \* [id*="price"]
    [kind |-> "class", arg |-> <<99, 111, 115, 116>>],  \* .cost
    [kind |-> "class", arg |-> <<97, 109, 111, 117, 110, 116>>],  \* .amount
    [kind |-> "attr", arg |-> "data-price"]  \* [data-price]
  >>

\* hasReviewElements
reviewSelectors ==
  <<
    [kind |-> "classContains", arg |-> <<114, 101, 118, 105, 101, 119>>],  \* [class*="review"]
    [kind |-> "classContains", arg |-> <<114, 97, 116, 105, 110, 103>>],  \* [class*="rating"]
    [kind |-> "classContains", arg |-> <<115, 116, 97, 114>>],  \* [class*="star"]
    [kind |-> "class", arg |-> <<101, 118, 97, 108, 117, 97, 116, 105, 111, 110>>]  \* .evaluation
  >>

\* hasEventElements
eventSelectors ==
  <<
    [kind |-> "classContains", arg |-> <<101, 118, 101, 110, 116>>],  \* [class*="event"]
    [kind |-> "classContains", arg |-> <<115, 99, 104, 101, 100, 117, 108, 101>>],  \* [class*="schedule"]
    [kind |-> "attr", arg |-> "datetime"],  \* [datetime]
    [kind |-> "tag", arg |-> "time"]  \* time
  >>

\* hasRecipeElements
recipeSelectors ==
  <<
    [kind |-> "classContains", arg |-> <<114, 101, 99, 105, 112, 101>>],  \* [class*="recipe"]
    [kind |-> "classContains", arg |-> <<105, 110, 103, 114, 101, 100, 105, 101, 110, 116>>],  \* [class*="ingredient"]
    [kind |-> "classContains", arg |-> <<105, 110, 115, 116, 114, 117, 99, 116, 105, 111, 110>>]  \* [class*="instruction"]
  >>

\* hasFAQElements: the selector list of its one query
faqSelectors ==
  <<
    [kind |-> "classContains", arg |-> <<102, 97, 113>>],  \* [class*="faq"]
    [kind |-> "idContains", arg |-> <<102, 97, 113>>],  \* [id*="faq"]
    [kind |-> "class", arg |-> <<113, 97>>],  \* .qa
    [kind |-> "class", arg |-> <<113, 117, 101, 115, 116, 105, 111, 110>>],  \* .question
    [kind |-> "class", arg |-> <<97, 110, 115, 119, 101, 114>>]  \* .answer
  >>

\* hasJobElements
jobSelectors ==
  <<
    [kind |-> "classContains", arg |-> <<106, 111, 98>>],  \* [class*="job"]
    [kind |-> "classContains", arg |-> <<99, 97, 114, 101, 101, 114>>],  \* [class*="career"]
    [kind |-> "classContains", arg |-> <<114, 101, 99, 114, 117, 105, 116>>]  \* [class*="recruit"]
  >>

\* hasCourseElements
courseSelectors ==
  <<
    [kind |-> "classContains", arg |-> <<99, 111, 117, 114, 115, 101>>],  \* [class*="course"]
    [kind |-> "classContains", arg |-> <<99, 117, 114, 114, 105, 99, 117, 108, 117, 109>>],  \* [class*="curriculum"]
    [kind |-> "classContains", arg |-> <<108, 101, 115, 115, 111, 110>>]  \* [class*="lesson"]
  >>

\* the words of hasReviewElements' pattern
reviewWords ==
  <<
    <<9733>>,  \* ★
    <<9734>>,  \* ☆
    <<35413, 20385>>,  \* 評価
    <<12524, 12499, 12517, 12540>>,  \* レビュー
    <<21475, 12467, 12511>>  \* 口コミ
  >>

\* the words of hasEventElements' pattern
eventWords ==
  <<
    <<38283, 20652, 26085>>,  \* 開催日
    <<38283, 20652, 26178, 38291>>,  \* 開催時間
    <<20250, 22580>>,  \* 会場
    <<12452, 12505, 12531, 12488>>  \* イベント
  >>

\* the words of hasRecipeElements' pattern
recipeWords ==
  <<
    <<26448, 26009>>,  \* 材料
    <<20998, 37327>>,  \* 分量
    <<25163, 38918>>,  \* 手順
    <<35519, 29702, 26178, 38291>>  \* 調理時間
  >>

\* the literal words of hasFAQElements' pattern
faqWords ==
  <<
    <<36074, 21839>>,  \* 質問
    <<22238, 31572>>  \* 回答
  >>

\* the words of hasJobElements' pattern
jobWords ==
  <<
    <<21215, 38598, 35201, 38917>>,  \* 募集要項
    <<32102, 19982>>,  \* 給与
    <<21220, 21209, 22320>>,  \* 勤務地
    <<24540, 21215, 36039, 26684>>  \* 応募資格
  >>

\* the words of hasCourseElements' pattern
courseWords ==
  <<
    <<12459, 12522, 12461, 12517, 12521, 12512>>,  \* カリキュラム
    <<35611, 24231>>,  \* 講座
    <<21463, 35611>>,  \* 受講
    <<23398, 32722, 20869, 23481>>  \* 学習内容
  >>


\* Object.keys(this.patterns): the page types in the order of declaration
TypeOrder ==
  <<"Article", "Product", "LocalBusiness", "Recipe", "Event",
    "FAQ", "HowTo", "Review", "JobPosting", "Course">>

PageTypes == {TypeOrder[i] : i \in 1..Len(TypeOrder)}

\* this.weights, doubled: title 3.0, meta 2.5, headings 2.0, url 2.0,
\* content 1.0
weights == [title |-> 6, meta |-> 5, headings |-> 4, url |-> 4, content |-> 2]

\* The bonuses of applySpecialElementBonus, doubled: price +10 Product;
\* review +8 Review, +5 Product; event +12 Event; recipe +15 Recipe;
\* faq +15 FAQ; job +12 JobPosting; course +10 Course
bonus ==
  [price |-> [Product |-> 20],
   review |-> [Review |-> 16, Product |-> 10],
   event |-> [Event |-> 24],
   recipe |-> [Recipe |-> 30],
   faq |-> [FAQ |-> 30],
   job |-> [JobPosting |-> 24],
   course |-> [Course |-> 20]]

---------------------------------------------------------------------------
(* The document handle $ (cheerio).  A document is                         *)
(*   [js |-> "function", title, metaDescription, body]                     *)
(* title: the text of the title element (Undefined when there is none),    *)
(* metaDescription: the content of meta[name="description"] (Undefined     *)
(* when there is none), body: the nodes of the body in document order,     *)
(* each [tag, class, id, attrs, text] (tag "#text" for a text node).       *)

\* \s of a JavaScript regular expression, and the characters trim() removes
IsSpace(c) ==
  \/ c \in {9, 10, 11, 12, 13, 32, 160, 5760, 8232, 8233, 8239, 8287, 12288, 65279}
  \/ (c >= 8192 /\ c <= 8202)

\* \d and the comma: the class [\d,]
IsDigitOrComma(c) == (c >= 48 /\ c <= 57) \/ c = 44

RECURSIVE trimStart(_)
trimStart(text) ==
  IF Len(text) > 0 /\ IsSpace(text[1]) THEN trimStart(Tail(text)) ELSE text

RECURSIVE trimEnd(_)
trimEnd(text) ==
  IF Len(text) > 0 /\ IsSpace(text[Len(text)])
    THEN trimEnd(SubSeq(text, 1, Len(text) - 1)) ELSE text

\* String.prototype.trim
trim(text) == trimEnd(trimStart(text))

\* replace(/\s+/g, ' '): every run of white space becomes one space
RECURSIVE collapseSpaces(_, _)
collapseSpaces(text, i) ==
  IF i > Len(text) THEN <<>>
  ELSE IF IsSpace(text[i])
    THEN IF i > 1 /\ IsSpace(text[i - 1])
           THEN collapseSpaces(text, i + 1)
           ELSE <<32>> \o collapseSpaces(text, i + 1)
    ELSE <<text[i]>> \o collapseSpaces(text, i + 1)

\* $(el).text() of the title element; '' when no element matches
titleText(handle) ==
  IF handle.title = Undefined THEN <<>> ELSE handle.title.v

RECURSIVE concatTexts(_, _)
concatTexts(nodes, i) ==
  IF i > Len(nodes) THEN <<>> ELSE nodes[i].text \o concatTexts(nodes, i + 1)

\* $('body').text(): the texts of the body's nodes, concatenated
bodyTextOf(handle) == concatTexts(handle.body, 1)

\* A class selector .name: name is one of the white-space separated words of
\* the class attribute
hasClassToken(class, token) ==
  \E i \in 1..(Len(class) - Len(token) + 1) :
    /\ StartsAt(class, token, i)
    /\ (i = 1 \/ IsSpace(class[i - 1]))
    /\ (i + Len(token) - 1 = Len(class) \/ IsSpace(class[i + Len(token)]))

matches(node, selector) ==
  CASE selector.kind = "classContains" -> includes(node.class, selector.arg)
    [] selector.kind = "idContains" -> includes(node.id, selector.arg)
    [] selector.kind = "class" -> hasClassToken(node.class, selector.arg)
    [] selector.kind = "attr" -> selector.arg \in node.attrs
    [] selector.kind = "tag" -> node.tag = selector.arg
    [] selector.kind = "attrValue" ->
         selector.arg \in node.attrs /\ selector.value = <<>>

\* $(selector).length > 0
selects(handle, selector) ==
  \E i \in 1..Len(handle.body) : matches(handle.body[i], selector)

selectsAny(handle, selectors) ==
  \E k \in 1..Len(selectors) : selects(handle, selectors[k])

\* The first position from i on that holds no white space (\s* is greedy, and
\* what follows it in the patterns below is never white space)
RECURSIVE skipSpaces(_, _)
skipSpaces(text, i) ==
  IF i <= Len(text) /\ IsSpace(text[i]) THEN skipSpaces(text, i + 1) ELSE i

IsColon(c) == c \in {58, 65306}

\* /[￥$€£]\s*[\d,]+|[\d,]+\s*円|価格\s*[:：]\s*[\d,]+/
pricePattern(text) ==
  \E i \in 1..Len(text) :
    \/ /\ text[i] \in {65509, 36, 8364, 163}
       /\ LET j == skipSpaces(text, i + 1)
          IN  j <= Len(text) /\ IsDigitOrComma(text[j])
    \/ /\ IsDigitOrComma(text[i])
       /\ LET j == skipSpaces(text, i + 1)
          IN  j <= Len(text) /\ text[j] = 20870
    \/ /\ StartsAt(text, <<20385, 26684>>, i)
       /\ LET j == skipSpaces(text, i + 2)
          IN  /\ j <= Len(text) /\ IsColon(text[j])
              /\ LET k == skipSpaces(text, j + 1)
                 IN  k <= Len(text) /\ IsDigitOrComma(text[k])

\* /Q\s*[:：]|A\s*[:：]|質問|回答/
faqPattern(text) ==
  \/ \E i \in 1..Len(text) :
       /\ text[i] \in {81, 65}
       /\ LET j == skipSpaces(text, i + 1)
          IN  j <= Len(text) /\ IsColon(text[j])
  \/ testAny(text, faqWords)

hasPriceElements(handle) ==
  selectsAny(handle, priceSelectors) \/ pricePattern(bodyTextOf(handle))

hasReviewElements(handle) ==
  selectsAny(handle, reviewSelectors) \/ testAny(bodyTextOf(handle), reviewWords)

hasEventElements(handle) ==
  selectsAny(handle, eventSelectors) \/ testAny(bodyTextOf(handle), eventWords)

\* hasRecipeElements that looks for the recipe elements and not for the words
hasRecipeElements_SelectorsOnly(handle) ==
  selectsAny(handle, recipeSelectors)

hasRecipeElements(handle) ==
  selectsAny(handle, recipeSelectors) \/ testAny(bodyTextOf(handle), recipeWords)

hasFAQElements(handle) ==
  selectsAny(handle, faqSelectors) \/ faqPattern(bodyTextOf(handle))

hasJobElements(handle) ==
  selectsAny(handle, jobSelectors) \/ testAny(bodyTextOf(handle), jobWords)

hasCourseElements(handle) ==
  selectsAny(handle, courseSelectors) \/ testAny(bodyTextOf(handle), courseWords)

HeadingTags == {"h1", "h2", "h3", "h4", "h5", "h6"}

\* $('h1, h2, h3, h4, h5, h6').each: the trimmed texts of the headings
RECURSIVE headingTexts(_, _)
headingTexts(nodes, i) ==
  IF i > Len(nodes) THEN <<>>
  ELSE (IF nodes[i].tag \in HeadingTags THEN <<trim(nodes[i].text)>> ELSE <<>>)
       \o headingTexts(nodes, i + 1)

\* extractPageData($, url): $ that is not a function throws at $('title').
\* url || '' keeps a url that is not a string when it is truthy.
extractPageData(handle, urlArg) ==
  IF handle.js # "function" THEN Throw
  ELSE Return(
    [title |-> trim(titleText(handle)),
     metaDescription |->
       IF handle.metaDescription = Undefined THEN <<>>
       ELSE handle.metaDescription.v,
     headings |-> headingTexts(handle.body, 1),
     url |-> IF IsNullish(urlArg) \/ (urlArg.js = "string" /\ urlArg.v = <<>>)
               THEN Str(<<>>) ELSE urlArg,
     bodyText |-> trim(collapseSpaces(bodyTextOf(handle), 1)),
     contentLength |-> Len(trim(collapseSpaces(bodyTextOf(handle), 1))),
     specialElements |->
       [price |-> hasPriceElements(handle),
        review |-> hasReviewElements(handle),
        event |-> hasEventElements(handle),
        recipe |-> hasRecipeElements(handle),
        faq |-> hasFAQElements(handle),
        job |-> hasJobElements(handle),
        course |-> hasCourseElements(handle)]])

\* A count that stops at the first match of the word
countOccurrences_Capped(text, word, i) ==
  IF includes(text, word) THEN 1 ELSE 0

\* (text.match(new RegExp(word, 'g')) || []).length: the matches of a literal
\* word, found from left to right without overlap
RECURSIVE countOccurrences(_, _, _)
countOccurrences(text, word, i) ==
  IF i + Len(word) - 1 > Len(text) THEN 0
  ELSE IF StartsAt(text, word, i)
    THEN 1 + countOccurrences(text, word, i + Len(word))
    ELSE countOccurrences(text, word, i + 1)

RECURSIVE sumOccurrences(_, _, _)
sumOccurrences(lowerText, keywords, k) ==
  IF k > Len(keywords) THEN 0
  ELSE countOccurrences(lowerText, toLowerCase(keywords[k]), 1)
       + sumOccurrences(lowerText, keywords, k + 1)

\* countMatches(text, keywords): 0 for an empty text
countMatches(text, keywords) ==
  IF text = <<>> THEN 0 ELSE sumOccurrences(toLowerCase(text), keywords, 1)

\* countPatternMatches(text, patterns): 0 for an empty text, else the number
\* of patterns the text includes
countPatternMatches(text, patternList) ==
  IF text = <<>> THEN 0
  ELSE Cardinality({k \in 1..Len(patternList) : includes(text, patternList[k])})

RECURSIVE join(_, _)
\* headings.join(' ') from heading i on
join(texts, i) ==
  IF i > Len(texts) THEN <<>>
  ELSE IF i = Len(texts) THEN texts[i]
  ELSE texts[i] \o Space \o join(texts, i + 1)

\* calculateSingleTypeScore(type, pageData), doubled.  A url that is truthy
\* and not a string has no includes method: countPatternMatches throws.
calculateSingleTypeScore(type, pageData) ==
  IF pageData.url.js # "string" THEN Throw
  ELSE
    LET pattern == patterns[type]
    IN  Return(
          countMatches(pageData.title, pattern.keywords) * weights.title
          + countPatternMatches(pageData.title, pattern.titlePatterns) * weights.title
          + countMatches(pageData.metaDescription, pattern.keywords) * weights.meta
          + countMatches(join(pageData.headings, 1), pattern.keywords) * weights.headings
          + countPatternMatches(pageData.url.v, pattern.urlPatterns) * weights.url
          + countMatches(pageData.bodyText, pattern.keywords) * weights.content
          + countMatches(pageData.bodyText, pattern.contentPatterns) * weights.content)

\* A bonus in which Product gets the bonus of the price elements or, with no
\* price element, that of the review elements, never both
bonusOf_NoStacking(type, specialElements) ==
  (IF specialElements.price /\ type = "Product" THEN bonus.price.Product ELSE 0)
  + (IF specialElements.review /\ type = "Review" THEN bonus.review.Review ELSE 0)
  + (IF specialElements.review /\ ~specialElements.price /\ type = "Product"
       THEN bonus.review.Product ELSE 0)
  + (IF specialElements.event /\ type = "Event" THEN bonus.event.Event ELSE 0)
  + (IF specialElements.recipe /\ type = "Recipe" THEN bonus.recipe.Recipe ELSE 0)
  + (IF specialElements.faq /\ type = "FAQ" THEN bonus.faq.FAQ ELSE 0)
  + (IF specialElements.job /\ type = "JobPosting" THEN bonus.job.JobPosting ELSE 0)
  + (IF specialElements.course /\ type = "Course" THEN bonus.course.Course ELSE 0)

\* applySpecialElementBonus(scores, specialElements): the bonus a type gets
bonusOf(type, specialElements) ==
  (IF specialElements.price /\ type = "Product" THEN bonus.price.Product ELSE 0)
  + (IF specialElements.review /\ type = "Review" THEN bonus.review.Review ELSE 0)
  + (IF specialElements.review /\ type = "Product" THEN bonus.review.Product ELSE 0)
  + (IF specialElements.event /\ type = "Event" THEN bonus.event.Event ELSE 0)
  + (IF specialElements.recipe /\ type = "Recipe" THEN bonus.recipe.Recipe ELSE 0)
  + (IF specialElements.faq /\ type = "FAQ" THEN bonus.faq.FAQ ELSE 0)
  + (IF specialElements.job /\ type = "JobPosting" THEN bonus.job.JobPosting ELSE 0)
  + (IF specialElements.course /\ type = "Course" THEN bonus.course.Course ELSE 0)

applySpecialElementBonus(scores, specialElements) ==
  [type \in DOMAIN scores |-> scores[type] + bonusOf(type, specialElements)]

\* calculateTypeScores(pageData)
calculateTypeScores(pageData) ==
  IF ~calculateSingleTypeScore(TypeOrder[1], pageData).ok THEN Throw
  ELSE Return(applySpecialElementBonus(
         [type \in PageTypes |-> calculateSingleTypeScore(type, pageData).val],
         pageData.specialElements))

\* A sort that is not stable: of two types of the same score the one that
\* Object.entries lists later comes first
placeOf_LaterFirst(scores, i) ==
  1 + Cardinality({j \in 1..Len(TypeOrder) :
                     \/ scores[TypeOrder[j]] > scores[TypeOrder[i]]
                     \/ (scores[TypeOrder[j]] = scores[TypeOrder[i]] /\ j > i)})

\* The place of TypeOrder[i] after Array.prototype.sort with (a, b) => b - a,
\* a stable sort: behind every type that scores more, and behind the types
\* of the same score that Object.entries lists before it
placeOf(scores, i) ==
  1 + Cardinality({j \in 1..Len(TypeOrder) :
                     \/ scores[TypeOrder[j]] > scores[TypeOrder[i]]
                     \/ (scores[TypeOrder[j]] = scores[TypeOrder[i]] /\ j < i)})

sorted(scores) ==
  [p \in 1..Len(TypeOrder) |->
     TypeOrder[CHOOSE i \in 1..Len(TypeOrder) : placeOf(scores, i) = p]]

\* getTopTypes with the comparator (a, b) => a - b
getTopTypes_Ascending(scores) ==
  LET place(i) ==
        1 + Cardinality({j \in 1..Len(TypeOrder) :
                           \/ scores[TypeOrder[j]] < scores[TypeOrder[i]]
                           \/ (scores[TypeOrder[j]] = scores[TypeOrder[i]] /\ j < i)})
  IN  SubSeq([p \in 1..Len(TypeOrder) |->
                TypeOrder[CHOOSE i \in 1..Len(TypeOrder) : place(i) = p]], 1, 5)

\* getTopTypes(scores): the first five of the sorted types
getTopTypes(scores) == SubSeq(sorted(scores), 1, 5)

\* getMatchedPatterns(pageData, type)
getMatchedPatterns(pageData, type) ==
  LET pattern == patterns[type]
      lowerTitle == toLowerCase(pageData.title)
      lowerBody == toLowerCase(pageData.bodyText)
      keyword(k) == \/ includes(lowerTitle, toLowerCase(k))
                    \/ includes(lowerBody, toLowerCase(k))
      inTitle(p) == includes(pageData.title, p)
      inUrl(p) == includes(pageData.url.v, p)
      inBody(p) == includes(pageData.bodyText, p)
  IN  [keywords |-> SelectSeq(pattern.keywords, keyword),
       titlePatterns |-> SelectSeq(pattern.titlePatterns, inTitle),
       urlPatterns |-> SelectSeq(pattern.urlPatterns, inUrl),
       contentPatterns |-> SelectSeq(pattern.contentPatterns, inBody)]

\* The body of analyzePage's try block
tryAnalyzePage(handle, urlArg) ==
  LET pageData == extractPageData(handle, urlArg)
  IN  IF ~pageData.ok THEN Throw
      ELSE
        LET typeScores == calculateTypeScores(pageData.val)
        IN  IF ~typeScores.ok THEN Throw
            ELSE
              LET detectedTypes == getTopTypes(typeScores.val)
              IN  Return(
                    [primaryType |-> detectedTypes[1],
                     secondaryTypes |-> SubSeq(detectedTypes, 2, 3),
                     confidence |-> typeScores.val[detectedTypes[1]],
                     allScores |-> typeScores.val,
                     analysisDetails |->
                       [pageData |-> pageData.val,
                        matchedPatterns |->
                          getMatchedPatterns(pageData.val, detectedTypes[1])]])

\* The result of analyzePage's catch block ({} is the function of no type)
defaultAnalysis ==
  [primaryType |-> "Article",
   secondaryTypes |-> <<>>,
   confidence |-> 0,
   allScores |-> [type \in {} |-> 0],
   analysisDetails |-> [error |-> "TypeError"]]

\* analyzePage without its catch block
analyzePage_NoCatch(handle, urlArg) == tryAnalyzePage(handle, urlArg)

\* An analyser that keeps the scores of its last analysis and adds to them
analyzePage_Accumulating(handle, urlArg) ==
  LET body == tryAnalyzePage(handle, urlArg)
      now == IF body.ok THEN body.val ELSE defaultAnalysis
  IN  IF analysis = NoCall THEN Return(now)
      ELSE Return([now EXCEPT !.confidence = @ + analysis.val.confidence])

\* analyzePage($, url)
analyzePage(handle, urlArg) ==
  LET body == tryAnalyzePage(handle, urlArg)
  IN  IF body.ok THEN body ELSE Return(defaultAnalysis)

---------------------------------------------------------------------------
(* SchemaTemplates (schema-templates): JSON text *)

\* An object of a JSON-LD tree: its properties in the order of Object.entries
P(k, v) == [key |-> k, value |-> v]

Json(entries) == [js |-> "json", entries |-> entries]

Num(n) == [js |-> "number", v |-> n]

\* throw of an error of the given kind
Raise(kind) == [ok |-> FALSE, error |-> kind]

\* '{{' + key + '}}'
placeholder(key) == <<123, 123>> \o key \o <<125, 125>>

HexDigit(n) == IF n < 10 THEN 48 + n ELSE 87 + n

\* JSON.stringify of one code unit of a string (the texts of the model hold
\* no lone surrogate)
quoteUnit(c) ==
  CASE c = 34 -> <<92, 34>>
    [] c = 92 -> <<92, 92>>
    [] c = 8 -> <<92, 98>>
    [] c = 9 -> <<92, 116>>
    [] c = 10 -> <<92, 110>>
    [] c = 12 -> <<92, 102>>
    [] c = 13 -> <<92, 114>>
    [] c < 32 /\ c \notin {8, 9, 10, 12, 13} ->
         <<92, 117, 48, 48, HexDigit(c \div 16), HexDigit(c % 16)>>
    [] OTHER -> <<c>>

\* JSON.stringify of a string, without the enclosing quotes
RECURSIVE quote(_, _)
quote(text, i) ==
  IF i > Len(text) THEN <<>> ELSE quoteUnit(text[i]) \o quote(text, i + 1)

HexValue(c) ==
  CASE c \in 48..57 -> c - 48
    [] c \in 65..70 -> c - 55
    [] c \in 97..102 -> c - 87
    [] OTHER -> -1

\* JSON.parse of what stands between the quotes of a string token of the
\* text.  A quote, a control character or a malformed escape inside it is a
\* SyntaxError: the token ends early and what follows is no JSON (the texts
\* of the model hold no quote that is followed by , : } or ]).
RECURSIVE unquote(_, _)
unquote(text, i) ==
  IF i > Len(text) THEN Return(<<>>)
  ELSE IF text[i] = 34 \/ text[i] < 32 THEN Raise("SyntaxError")
  ELSE IF text[i] # 92 THEN
    LET rest == unquote(text, i + 1)
    IN  IF rest.ok THEN Return(<<text[i]>> \o rest.val) ELSE rest
  ELSE IF i = Len(text) THEN Raise("SyntaxError")
  ELSE IF text[i + 1] = 117 THEN
    IF i + 5 > Len(text) \/ \E k \in 2..5 : HexValue(text[i + k]) < 0
      THEN Raise("SyntaxError")
      ELSE LET rest == unquote(text, i + 6)
               unit == 4096 * HexValue(text[i + 2]) + 256 * HexValue(text[i + 3])
                       + 16 * HexValue(text[i + 4]) + HexValue(text[i + 5])
           IN  IF rest.ok THEN Return(<<unit>> \o rest.val) ELSE rest
  ELSE IF text[i + 1] \in {34, 92, 47, 98, 102, 110, 114, 116} THEN
    LET rest == unquote(text, i + 2)
        unit == CASE text[i + 1] = 98 -> 8
                  [] text[i + 1] = 102 -> 12
                  [] text[i + 1] = 110 -> 10
                  [] text[i + 1] = 114 -> 13
                  [] text[i + 1] = 116 -> 9
                  [] OTHER -> text[i + 1]
    IN  IF rest.ok THEN Return(<<unit>> \o rest.val) ELSE rest
  ELSE Raise("SyntaxError")

\* The replacement text of String.prototype.replace: $$ is a $, $& the match
\* (the texts of the model hold no other $ pattern that the pattern, which
\* has no group, would expand)
RECURSIVE substitution(_, _, _)
substitution(replacement, matched, i) ==
  IF i > Len(replacement) THEN <<>>
  ELSE IF replacement[i] = 36 /\ i < Len(replacement) /\ replacement[i + 1] = 36
    THEN <<36>> \o substitution(replacement, matched, i + 2)
  ELSE IF replacement[i] = 36 /\ i < Len(replacement) /\ replacement[i + 1] = 38
    THEN matched \o substitution(replacement, matched, i + 2)
  ELSE <<replacement[i]>> \o substitution(replacement, matched, i + 1)

\* text.replace(new RegExp(needle, 'g'), replacement) for a needle '{{key}}':
\* every match from left to right, none inside a replacement
RECURSIVE replaceAll(_, _, _, _)
replaceAll(text, needle, replacement, i) ==
  IF i > Len(text) THEN <<>>
  ELSE IF StartsAt(text, needle, i)
    THEN substitution(replacement, needle, 1)
           \o replaceAll(text, needle, replacement, i + Len(needle))
    ELSE <<text[i]>> \o replaceAll(text, needle, replacement, i + 1)

\* The decimal digits of a natural number
RECURSIVE digits(_)
digits(n) == IF n < 10 THEN <<48 + n>> ELSE digits(n \div 10) \o <<48 + (n % 10)>>

\* String(value), as replace() converts a replacement that is no function
RECURSIVE StringOf(_)
StringOf(value) ==
  CASE value.js = "string" -> value.v
    [] value.js = "number" -> digits(value.v)
    [] value.js = "json" ->
         <<91, 111, 98, 106, 101, 99, 116, 32, 79, 98, 106, 101, 99, 116, 93>>  \* [object Object]
    [] value.js = "array" ->
         LET RECURSIVE joined(_)
             joined(k) ==
               IF k > Len(value.v) THEN <<>>
               ELSE (IF k > 1 THEN <<44>> ELSE <<>>)
                      \o (IF IsNullish(value.v[k]) THEN <<>> ELSE StringOf(value.v[k]))
                      \o joined(k + 1)
         IN  joined(1)
    [] value.js = "undefined" -> <<117, 110, 100, 101, 102, 105, 110, 101, 100>>
    [] value.js = "null" -> <<110, 117, 108, 108>>

\* What a || treats as false: undefined, null, '' and 0
Falsy(value) ==
  \/ IsNullish(value)
  \/ (value.js = "string" /\ value.v = <<>>)
  \/ (value.js = "number" /\ value.v = 0)

\* a || b
Or(a, b) == IF Falsy(a) THEN b ELSE a

---------------------------------------------------------------------------
(* SchemaTemplates: what the extractors read of the document *)

\* $('meta[name=..]').attr('content'), $('meta[property=..]').attr('content'):
\* the documents of the model hold one meta element, the description
metaContent(handle, name) ==
  IF name = "description" THEN handle.metaDescription ELSE Undefined

\* $(el).attr(name): the attributes of the model's elements are written
\* without a value (<time datetime>), and their value is ''
attr(node, name) ==
  IF node # Undefined /\ name \in node.attrs THEN Str(<<>>) ELSE Undefined

\* $(selector, selector, ..).first(): the first element, in document order,
\* that one of the selectors matches (Undefined when the selection is empty)
first(handle, selectors) ==
  LET hits == {i \in 1..Len(handle.body) :
                 /\ handle.body[i].tag # "#text"
                 /\ \E k \in 1..Len(selectors) : matches(handle.body[i], selectors[k])}
  IN  IF hits = {} THEN Undefined
      ELSE handle.body[CHOOSE i \in hits : \A j \in hits : i <= j]

\* $(..).first().text().trim(); the text of an empty selection is ''
firstText(handle, selectors) ==
  LET node == first(handle, selectors)
  IN  Str(IF node = Undefined THEN <<>> ELSE trim(node.text))

IsDigit(c) == c >= 48 /\ c <= 57

\* - and the hyphen U+2010: the class [-‐]
IsHyphen(c) == c \in {45, 8208}

\* The last position of the run of units of a class that starts at i
\* (i - 1 when text[i] is not of the class)
RECURSIVE runEnd(_, _, _)
runEnd(text, i, class) ==
  IF i <= Len(text) /\ text[i] \in class THEN runEnd(text, i + 1, class) ELSE i - 1

Digits == 48..57

DigitsOrComma == Digits \cup {44}

\* (?:\.\d{2})? after position e: the position the optional group ends at
decimals(text, e) ==
  IF /\ e + 3 <= Len(text)
     /\ text[e + 1] = 46 /\ IsDigit(text[e + 2]) /\ IsDigit(text[e + 3])
    THEN e + 3 ELSE e

\* The end of the match of
\* /[￥$€£]\s*[\d,]+(?:\.\d{2})?|[\d,]+(?:\.\d{2})?\s*円/ that starts at i;
\* 0 when none starts there
priceMatchEnd(text, i) ==
  IF text[i] \in {65509, 36, 8364, 163} THEN
    LET j == skipSpaces(text, i + 1)
    IN  IF j <= Len(text) /\ IsDigitOrComma(text[j])
          THEN decimals(text, runEnd(text, j, DigitsOrComma)) ELSE 0
  ELSE IF IsDigitOrComma(text[i]) THEN
    LET e == runEnd(text, i, DigitsOrComma)
        k == skipSpaces(text, decimals(text, e) + 1)
    IN  IF k <= Len(text) /\ text[k] = 20870 THEN k ELSE 0
  ELSE 0

\* 'stars?' under the flag i, at position i: its end, or 0
starsEnd(text, i) ==
  IF /\ i + 3 <= Len(text)
     /\ toLowerCase(SubSeq(text, i, i + 3)) = <<115, 116, 97, 114>>
    THEN IF i + 4 <= Len(text) /\ text[i + 4] \in {115, 83} THEN i + 4 ELSE i + 3
    ELSE 0

\* The end of the match of
\* /★+|☆+|(\d+(?:\.\d+)?)\s*(?:点|stars?|\/\d+)/i that starts at i, or 0
ratingMatchEnd(text, i) ==
  IF text[i] = 9733 THEN runEnd(text, i, {9733})
  ELSE IF text[i] = 9734 THEN runEnd(text, i, {9734})
  ELSE IF IsDigit(text[i]) THEN
    LET e == runEnd(text, i, Digits)
        f == IF e + 2 <= Len(text) /\ text[e + 1] = 46 /\ IsDigit(text[e + 2])
               THEN runEnd(text, e + 2, Digits) ELSE e
        k == skipSpaces(text, f + 1)
    IN  IF k > Len(text) THEN 0
        ELSE IF text[k] = 28857 THEN k
        ELSE IF starsEnd(text, k) > 0 THEN starsEnd(text, k)
        ELSE IF text[k] = 47 /\ k + 1 <= Len(text) /\ IsDigit(text[k + 1])
          THEN runEnd(text, k + 1, Digits)
        ELSE 0
  ELSE 0

\* The end of the match of /\d{2,4}[-‐]\d{2,4}[-‐]\d{3,4}|\d{10,11}/ that
\* starts at i, or 0
phoneMatchEnd(text, i) ==
  LET a == runEnd(text, i, Digits)
      b == runEnd(text, a + 2, Digits)
      c == runEnd(text, b + 2, Digits)
  IN  IF /\ a - i + 1 \in 2..4
         /\ a + 1 <= Len(text) /\ IsHyphen(text[a + 1])
         /\ b - a - 1 \in 2..4
         /\ b + 1 <= Len(text) /\ IsHyphen(text[b + 1])
         /\ c - b - 1 >= 3
        THEN IF c - b - 1 > 4 THEN b + 5 ELSE c
      ELSE IF a - i + 1 >= 10
        THEN IF a - i + 1 > 11 THEN i + 10 ELSE a
      ELSE 0

\* The end of the match of
\* /[都道府県][市区町村][^0-9]*\d+[-‐]\d+[-‐]\d+/ that starts at i, or 0
addressMatchEnd(text, i) ==
  IF /\ i + 1 <= Len(text)
     /\ text[i] \in {37117, 36947, 24220, 30476}
     /\ text[i + 1] \in {24066, 21306, 30010, 26449}
    THEN
      LET p == runEnd(text, i + 2, (0..65535) \ Digits) + 1
          a == runEnd(text, p, Digits)
          b == runEnd(text, a + 2, Digits)
          c == runEnd(text, b + 2, Digits)
      IN  IF /\ a >= p
             /\ a + 1 <= Len(text) /\ IsHyphen(text[a + 1])
             /\ b >= a + 2
             /\ b + 1 <= Len(text) /\ IsHyphen(text[b + 1])
             /\ c >= b + 2
            THEN c ELSE 0
    ELSE 0

---------------------------------------------------------------------------
(* SchemaTemplates: the extractors *)

\* text.match(pattern)[0] for a pattern with the flag g: the leftmost match
\* at or after position from, as [from, to]; to = 0 when there is none
firstMatch(text, MatchEnd(_, _), from) ==
  LET starts == {i \in from..Len(text) : MatchEnd(text, i) > 0}
  IN  IF starts = {} THEN [from |-> 0, to |-> 0]
      ELSE LET i == CHOOSE s \in starts : \A t \in starts : s <= t
           IN  [from |-> i, to |-> MatchEnd(text, i)]

\* extractAuthor($)
extractAuthor(handle) ==
  Or(firstText(handle, <<[kind |-> "attrValue", arg |-> "rel", value |-> <<97, 117, 116, 104, 111, 114>>],  \* 'author'
                         [kind |-> "class", arg |-> <<97, 117, 116, 104, 111, 114>>],  \* 'author'
                         [kind |-> "attrValue", arg |-> "itemprop", value |-> <<97, 117, 116, 104, 111, 114>>]>>),  \* 'author'
     Or(metaContent(handle, "author"), Str(<<>>)))

\* text.split('|').pop(): what follows the last | of the text
afterLastBar(text) ==
  LET bars == {i \in 1..Len(text) : text[i] = 124}
  IN  IF bars = {} THEN text
      ELSE SubSeq(text, (CHOOSE i \in bars : \A j \in bars : j <= i) + 1, Len(text))

\* extractPublisher($)
extractPublisher(handle) ==
  Or(firstText(handle, <<[kind |-> "attrValue", arg |-> "itemprop", value |-> <<112, 117, 98, 108, 105, 115, 104, 101, 114>>]>>),  \* 'publisher'
     Or(metaContent(handle, "og:site_name"),
        Or(Str(trim(afterLastBar(titleText(handle)))), Str(<<>>))))

\* extractMainImage($)
extractMainImage(handle) ==
  Or(metaContent(handle, "og:image"),
     Or(attr(first(handle, <<[kind |-> "tag", arg |-> "img"]>>), "src"), Str(<<>>)))

\* extractPublishDate($)
extractPublishDate(handle) ==
  Or(attr(first(handle, <<[kind |-> "attr", arg |-> "datetime"]>>), "datetime"),
     Or(metaContent(handle, "article:published_time"), Str(<<>>)))

\* extractModifiedDate($): time[datetime][itemprop="dateModified"] selects no
\* element whose itemprop has no value
extractModifiedDate(handle) ==
  Or(attr(first(handle, <<[kind |-> "attrValue", arg |-> "itemprop", value |-> <<100, 97, 116, 101, 77, 111, 100, 105, 102, 105, 101, 100>>]>>),  \* 'dateModified'
          "datetime"),
     Or(metaContent(handle, "article:modified_time"), Str(<<>>)))

\* extractLogo($): '.logo img, #logo img' selects images inside another
\* element, and the elements of the model's documents hold text only
extractLogo(handle) ==
  Or(metaContent(handle, "og:image"), Str(<<>>))

\* headings.slice(0, 5).join(', ')
RECURSIVE joinComma(_, _)
joinComma(texts, i) ==
  IF i > Len(texts) \/ i > 5 THEN <<>>
  ELSE (IF i > 1 THEN <<44, 32>> ELSE <<>>) \o texts[i] \o joinComma(texts, i + 1)

\* extractKeywords($, pageData): pageData.headings.slice throws when the page
\* has no keywords meta element and pageData has no headings
extractKeywords(handle, pageData) ==
  IF ~Falsy(metaContent(handle, "keywords")) THEN Return(metaContent(handle, "keywords"))
  ELSE IF ~Has(pageData, "headings") THEN Throw
  ELSE Return(Or(Str(joinComma(pageData.headings, 1)), Str(<<>>)))

\* extractCategory($)
extractCategory(handle) ==
  Or(metaContent(handle, "article:section"),
     Or(firstText(handle, <<[kind |-> "class", arg |-> <<99, 97, 116, 101, 103, 111, 114, 121>>],  \* 'category'
                            [kind |-> "class", arg |-> <<116, 97, 103>>]>>),  \* 'tag'
        Str(<<>>)))

\* priceMatch[0].replace(/[^\d,.]/g, '')
RECURSIVE digitsCommasDots(_, _)
digitsCommasDots(text, i) ==
  IF i > Len(text) THEN <<>>
  ELSE (IF IsDigitOrComma(text[i]) \/ text[i] = 46 THEN <<text[i]>> ELSE <<>>)
       \o digitsCommasDots(text, i + 1)

\* extractPrice($, pageData): pageData.bodyText.match throws when pageData
\* has no bodyText
extractPrice(handle, pageData) ==
  IF ~Has(pageData, "bodyText") THEN Throw
  ELSE LET m == firstMatch(pageData.bodyText, priceMatchEnd, 1)
       IN  Return(Str(IF m.to = 0 THEN <<>>
                      ELSE digitsCommasDots(SubSeq(pageData.bodyText, m.from, m.to), 1)))

\* extractRating($): with the flag g, match() lists the matches; the second
\* match when there is one, else the length of the first
extractRating(handle) ==
  LET text == bodyTextOf(handle)
      m1 == firstMatch(text, ratingMatchEnd, 1)
      m2 == IF m1.to = 0 THEN m1 ELSE firstMatch(text, ratingMatchEnd, m1.to + 1)
  IN  IF m1.to = 0 THEN Str(<<>>)
      ELSE IF m2.to # 0 THEN Str(SubSeq(text, m2.from, m2.to))
      ELSE Num(m1.to - m1.from + 1)

\* extractAddress($)
extractAddress(handle) ==
  LET text == bodyTextOf(handle)
      m == firstMatch(text, addressMatchEnd, 1)
  IN  Str(IF m.to = 0 THEN <<>> ELSE SubSeq(text, m.from, m.to))

\* extractPhone($)
extractPhone(handle) ==
  LET text == bodyTextOf(handle)
      m == firstMatch(text, phoneMatchEnd, 1)
  IN  Str(IF m.to = 0 THEN <<>> ELSE SubSeq(text, m.from, m.to))

\* str.split(/[。！？]/): the pieces of the text from position i on
RECURSIVE sentencesFrom(_, _, _)
sentencesFrom(text, i, piece) ==
  IF i > Len(text) THEN <<piece>>
  ELSE IF text[i] \in {12290, 65281, 65311}  \* 。！？
    THEN <<piece>> \o sentencesFrom(text, i + 1, <<>>)
    ELSE sentencesFrom(text, i + 1, Append(piece, text[i]))

\* generateDescription(bodyText)
generateDescription(bodyText) ==
  IF bodyText = <<>> THEN <<>>
  ELSE LET long(s) == Len(trim(s)) > 10
           sentences == SelectSeq(sentencesFrom(bodyText, 1, <<>>), long)
       IN  IF Len(sentences) = 0 THEN <<>>
           ELSE IF Len(sentences) = 1 THEN sentences[1] \o <<12290>>
           ELSE sentences[1] \o <<12290>> \o sentences[2] \o <<12290>>

\* A property of pageData as a value: undefined when pageData has none
prop(pageData, field) ==
  IF Has(pageData, field) THEN Str(pageData[field]) ELSE Undefined

\* extractArticleData($, pageData); today is new Date().toISOString() up to
\* its T
extractArticleData(handle, pageData, today) ==
  LET keywords == extractKeywords(handle, pageData)
  IN  IF ~keywords.ok THEN keywords
      ELSE Return(
        <<P(<<97, 117, 116, 104, 111, 114, 78, 97, 109, 101>>, Or(extractAuthor(handle), Str(<<12469, 12452, 12488, 36939, 21942, 32773>>))),  \* authorName, 'サイト運営者'
          P(<<112, 117, 98, 108, 105, 115, 104, 101, 114, 78, 97, 109, 101>>, Or(extractPublisher(handle), Str(<<12469, 12452, 12488, 21517>>))),  \* publisherName, 'サイト名'
          P(<<112, 117, 98, 108, 105, 115, 104, 68, 97, 116, 101>>, Or(extractPublishDate(handle), Str(today))),  \* publishDate
          P(<<109, 111, 100, 105, 102, 105, 101, 100, 68, 97, 116, 101>>, Or(extractModifiedDate(handle), Str(today))),  \* modifiedDate
          P(<<109, 97, 105, 110, 73, 109, 97, 103, 101>>, extractMainImage(handle)),  \* mainImage
          P(<<112, 117, 98, 108, 105, 115, 104, 101, 114, 76, 111, 103, 111>>, extractLogo(handle)),  \* publisherLogo
          P(<<107, 101, 121, 119, 111, 114, 100, 115>>, keywords.val),  \* keywords
          P(<<99, 97, 116, 101, 103, 111, 114, 121>>, extractCategory(handle))>>)  \* category

\* extractProductData($, pageData), with extractBrand .. extractGTIN
extractProductData(handle, pageData) ==
  LET price == extractPrice(handle, pageData)
  IN  IF ~price.ok THEN price
      ELSE Return(
        <<P(<<112, 114, 111, 100, 117, 99, 116, 78, 97, 109, 101>>, prop(pageData, "title")),  \* productName
          P(<<112, 114, 111, 100, 117, 99, 116, 73, 109, 97, 103, 101>>, extractMainImage(handle)),  \* productImage
          P(<<98, 114, 97, 110, 100, 78, 97, 109, 101>>, Str(<<>>)),  \* brandName
          P(<<112, 114, 105, 99, 101>>, price.val),  \* price
          P(<<97, 118, 97, 105, 108, 97, 98, 105, 108, 105, 116, 121>>, Str(<<73, 110, 83, 116, 111, 99, 107>>)),  \* availability, 'InStock'
          P(<<115, 101, 108, 108, 101, 114, 78, 97, 109, 101>>, Str(<<>>)),  \* sellerName
          P(<<114, 97, 116, 105, 110, 103, 86, 97, 108, 117, 101>>, extractRating(handle)),  \* ratingValue
          P(<<114, 101, 118, 105, 101, 119, 67, 111, 117, 110, 116>>, Str(<<>>)),  \* reviewCount
          P(<<115, 107, 117>>, Str(<<>>)),  \* sku
          P(<<103, 116, 105, 110>>, Str(<<>>))>>)  \* gtin

\* extractLocalBusinessData($, pageData), with extractCity .. extractPriceRange
extractLocalBusinessData(handle, pageData) ==
  Return(
    <<P(<<98, 117, 115, 105, 110, 101, 115, 115, 78, 97, 109, 101>>, prop(pageData, "title")),  \* businessName
      P(<<98, 117, 115, 105, 110, 101, 115, 115, 73, 109, 97, 103, 101>>, extractMainImage(handle)),  \* businessImage
      P(<<115, 116, 114, 101, 101, 116, 65, 100, 100, 114, 101, 115, 115>>, extractAddress(handle)),  \* streetAddress
      P(<<99, 105, 116, 121>>, Str(<<>>)),  \* city
      P(<<115, 116, 97, 116, 101>>, Str(<<>>)),  \* state
      P(<<112, 111, 115, 116, 97, 108, 67, 111, 100, 101>>, Str(<<>>)),  \* postalCode
      P(<<112, 104, 111, 110, 101>>, extractPhone(handle)),  \* phone
      P(<<119, 101, 98, 115, 105, 116, 101>>, prop(pageData, "url")),  \* website
      P(<<108, 97, 116, 105, 116, 117, 100, 101>>, Str(<<>>)),  \* latitude
      P(<<108, 111, 110, 103, 105, 116, 117, 100, 101>>, Str(<<>>)),  \* longitude
      P(<<119, 101, 101, 107, 100, 97, 121, 79, 112, 101, 110>>, Str(<<48, 57, 58, 48, 48>>)),  \* weekdayOpen, '09:00'
      P(<<119, 101, 101, 107, 100, 97, 121, 67, 108, 111, 115, 101>>, Str(<<49, 56, 58, 48, 48>>)),  \* weekdayClose, '18:00'
      P(<<112, 114, 105, 99, 101, 82, 97, 110, 103, 101>>, Str(<<36, 36>>))>>)  \* priceRange, '$$'

\* extractRecipeData($, pageData): the class has no method extractPrepTime,
\* and the call of it throws when recipeName, recipeImage and authorName
\* have been evaluated
extractRecipeData(handle, pageData) == Throw

\* extractEventData($, pageData): the class has no method extractStartDate
extractEventData(handle, pageData) == Throw

\* /^Q\s*[:：]/ and /^A\s*[:：]/: the letter, white space, a colon
prefixed(text, letter) ==
  /\ Len(text) >= 1
  /\ text[1] = letter
  /\ LET j == skipSpaces(text, 2) IN j <= Len(text) /\ IsColon(text[j])

\* text.replace(/^Q\s*[:：]\s*/, '') of a text that has the prefix
stripPrefix(text) ==
  SubSeq(text, skipSpaces(text, skipSpaces(text, 2) + 1), Len(text))

\* $(el).next(): the element that follows node i of the body (Undefined when
\* there is none)
next(handle, i) ==
  LET later == {j \in (i + 1)..Len(handle.body) : handle.body[j].tag # "#text"}
  IN  IF later = {} THEN Undefined
      ELSE handle.body[CHOOSE j \in later : \A k \in later : j <= k]

\* The elements $('*') visits whose text can start with Q and that have a
\* next element, in document order, each with the text of its next element:
\* head, whose text is the title's text and whose next element is body, and
\* the elements of body (html and body have no next element; neither has
\* title unless a meta element follows it, whose text is empty)
faqCandidates(handle) ==
  <<[text |-> titleText(handle), next |-> Str(bodyTextOf(handle))]>>
  \o [i \in 1..Len(handle.body) |->
        [text |-> IF handle.body[i].tag = "#text" THEN <<>> ELSE handle.body[i].text,
         next |-> IF next(handle, i) = Undefined THEN Undefined
                  ELSE Str(next(handle, i).text)]]

\* extractFAQData($, pageData)
extractFAQData(handle, pageData) ==
  LET pair(c) == /\ prefixed(trim(c.text), 81)
                 /\ c.next # Undefined
                 /\ prefixed(c.next.v, 65)
      found == SelectSeq(faqCandidates(handle), pair)
      item(c) ==
        Json(<<P(<<64, 116, 121, 112, 101>>, Str(<<81, 117, 101, 115, 116, 105, 111, 110>>)),  \* @type, 'Question'
               P(<<110, 97, 109, 101>>, Str(stripPrefix(trim(c.text)))),  \* name
               P(<<97, 99, 99, 101, 112, 116, 101, 100, 65, 110, 115, 119, 101, 114>>,  \* acceptedAnswer
                 Json(<<P(<<64, 116, 121, 112, 101>>, Str(<<65, 110, 115, 119, 101, 114>>)),  \* @type, 'Answer'
                        P(<<116, 101, 120, 116>>, Str(stripPrefix(c.next.v)))>>))>>)  \* text
  IN  Return(<<P(<<102, 97, 113, 73, 116, 101, 109, 115>>, Arr([k \in 1..Len(found) |-> item(found[k])]))>>)  \* faqItems

\* extractHowToData($, pageData): the class has no method extractTotalTime
extractHowToData(handle, pageData) == Throw

\* extractReviewData($, pageData): the class has no method
\* extractReviewedItemType
extractReviewData(handle, pageData) == Throw

\* extractJobData($, pageData): the class has no method extractCompanyName
extractJobData(handle, pageData) == Throw

\* extractCourseData($, pageData): the class has no method extractProvider
extractCourseData(handle, pageData) == Throw

\* Object.assign(target, source) on the lists of properties: a property the
\* target has keeps its place and takes the new value, the others follow
assign(target, source) ==
  LET given(key) == {k \in 1..Len(source) : source[k].key = key}
      new(p) == \A k \in 1..Len(target) : target[k].key # p.key
  IN  [k \in 1..Len(target) |->
         IF given(target[k].key) = {} THEN target[k]
         ELSE source[CHOOSE n \in given(target[k].key) : TRUE]]
      \o SelectSeq(source, new)

\* extractDataFromPage(pageData, $, schemaType): the extracted properties in
\* the order of Object.entries
extractDataFromPage(pageData, handle, schemaType, today) ==
  IF IsNullish(pageData) \/ handle.js # "function" THEN Throw
  ELSE
    LET base ==
          <<P(<<116, 105, 116, 108, 101>>, Or(prop(pageData, "title"), Str(trim(titleText(handle))))),  \* title
            P(<<100, 101, 115, 99, 114, 105, 112, 116, 105, 111, 110>>,  \* description
              Or(prop(pageData, "metaDescription"),
                 Or(metaContent(handle, "description"),
                    Str(IF Has(pageData, "bodyText")
                          THEN generateDescription(pageData.bodyText) ELSE <<>>)))),
            P(<<117, 114, 108>>, Or(prop(pageData, "url"), Str(<<>>)))>>  \* url
        specific ==
          CASE schemaType \in {Str(<<65, 114, 116, 105, 99, 108, 101>>), Str(<<78, 101, 119, 115, 65, 114, 116, 105, 99, 108, 101>>), Str(<<66, 108, 111, 103, 80, 111, 115, 116, 105, 110, 103>>)} ->  \* 'Article', 'NewsArticle', 'BlogPosting'
                 extractArticleData(handle, pageData, today)
            [] schemaType = Str(<<80, 114, 111, 100, 117, 99, 116>>) -> extractProductData(handle, pageData)  \* 'Product'
            [] schemaType = Str(<<76, 111, 99, 97, 108, 66, 117, 115, 105, 110, 101, 115, 115>>) -> extractLocalBusinessData(handle, pageData)  \* 'LocalBusiness'
            [] schemaType = Str(<<82, 101, 99, 105, 112, 101>>) -> extractRecipeData(handle, pageData)  \* 'Recipe'
            [] schemaType = Str(<<69, 118, 101, 110, 116>>) -> extractEventData(handle, pageData)  \* 'Event'
            [] schemaType = Str(<<70, 65, 81, 80, 97, 103, 101>>) -> extractFAQData(handle, pageData)  \* 'FAQPage'
            [] schemaType = Str(<<72, 111, 119, 84, 111>>) -> extractHowToData(handle, pageData)  \* 'HowTo'
            [] schemaType = Str(<<82, 101, 118, 105, 101, 119>>) -> extractReviewData(handle, pageData)  \* 'Review'
            [] schemaType = Str(<<74, 111, 98, 80, 111, 115, 116, 105, 110, 103>>) -> extractJobData(handle, pageData)  \* 'JobPosting'
            [] schemaType = Str(<<67, 111, 117, 114, 115, 101>>) -> extractCourseData(handle, pageData)  \* 'Course'
            [] OTHER -> Return(<<>>)
    IN  IF specific.ok THEN Return(assign(base, specific.val)) ELSE specific

---------------------------------------------------------------------------
(* SchemaTemplates: the catalog *)

\* getTemplate's table: the object literals of getArticleTemplate() ..
\* getBreadcrumbListTemplate(), every property in the order it is written
templates ==
  [Article |->
     Json(<<
       P(<<64, 99, 111, 110, 116, 101, 120, 116>>, Str(<<104, 116, 116, 112, 115, 58, 47, 47, 115, 99, 104, 101, 109, 97, 46, 111, 114, 103>>)),  \* "@context": "https://schema.org"
       P(<<64, 116, 121, 112, 101>>, Str(<<65, 114, 116, 105, 99, 108, 101>>)),  \* "@type": "Article"
       P(<<104, 101, 97, 100, 108, 105, 110, 101>>, Str(<<123, 123, 116, 105, 116, 108, 101, 125, 125>>)),  \* "headline": "{{title}}"
       P(<<100, 101, 115, 99, 114, 105, 112, 116, 105, 111, 110>>, Str(<<123, 123, 100, 101, 115, 99, 114, 105, 112, 116, 105, 111, 110, 125, 125>>)),  \* "description": "{{description}}"
       P(<<105, 109, 97, 103, 101>>, Str(<<123, 123, 109, 97, 105, 110, 73, 109, 97, 103, 101, 125, 125>>)),  \* "image": "{{mainImage}}"
       P(<<97, 117, 116, 104, 111, 114>>,  \* "author":
         Json(<<
           P(<<64, 116, 121, 112, 101>>, Str(<<80, 101, 114, 115, 111, 110>>)),  \* "@type": "Person"
           P(<<110, 97, 109, 101>>, Str(<<123, 123, 97, 117, 116, 104, 111, 114, 78, 97, 109, 101, 125, 125>>))  \* "name": "{{authorName}}"
         >>)),
       P(<<112, 117, 98, 108, 105, 115, 104, 101, 114>>,  \* "publisher":
         Json(<<
           P(<<64, 116, 121, 112, 101>>, Str(<<79, 114, 103, 97, 110, 105, 122, 97, 116, 105, 111, 110>>)),  \* "@type": "Organization"
           P(<<110, 97, 109, 101>>, Str(<<123, 123, 112, 117, 98, 108, 105, 115, 104, 101, 114, 78, 97, 109, 101, 125, 125>>)),  \* "name": "{{publisherName}}"
           P(<<108, 111, 103, 111>>,  \* "logo":
             Json(<<
               P(<<64, 116, 121, 112, 101>>, Str(<<73, 109, 97, 103, 101, 79, 98, 106, 101, 99, 116>>)),  \* "@type": "ImageObject"
               P(<<117, 114, 108>>, Str(<<123, 123, 112, 117, 98, 108, 105, 115, 104, 101, 114, 76, 111, 103, 111, 125, 125>>))  \* "url": "{{publisherLogo}}"
             >>))
         >>)),
       P(<<100, 97, 116, 101, 80, 117, 98, 108, 105, 115, 104, 101, 100>>, Str(<<123, 123, 112, 117, 98, 108, 105, 115, 104, 68, 97, 116, 101, 125, 125>>)),  \* "datePublished": "{{publishDate}}"
       P(<<100, 97, 116, 101, 77, 111, 100, 105, 102, 105, 101, 100>>, Str(<<123, 123, 109, 111, 100, 105, 102, 105, 101, 100, 68, 97, 116, 101, 125, 125>>)),  \* "dateModified": "{{modifiedDate}}"
       P(<<109, 97, 105, 110, 69, 110, 116, 105, 116, 121, 79, 102, 80, 97, 103, 101>>,  \* "mainEntityOfPage":
         Json(<<
           P(<<64, 116, 121, 112, 101>>, Str(<<87, 101, 98, 80, 97, 103, 101>>)),  \* "@type": "WebPage"
           P(<<64, 105, 100>>, Str(<<123, 123, 117, 114, 108, 125, 125>>))  \* "@id": "{{url}}"
         >>))
     >>),
   NewsArticle |->
     Json(<<
       P(<<64, 99, 111, 110, 116, 101, 120, 116>>, Str(<<104, 116, 116, 112, 115, 58, 47, 47, 115, 99, 104, 101, 109, 97, 46, 111, 114, 103>>)),  \* "@context": "https://schema.org"
       P(<<64, 116, 121, 112, 101>>, Str(<<78, 101, 119, 115, 65, 114, 116, 105, 99, 108, 101>>)),  \* "@type": "NewsArticle"
       P(<<104, 101, 97, 100, 108, 105, 110, 101>>, Str(<<123, 123, 116, 105, 116, 108, 101, 125, 125>>)),  \* "headline": "{{title}}"
       P(<<100, 101, 115, 99, 114, 105, 112, 116, 105, 111, 110>>, Str(<<123, 123, 100, 101, 115, 99, 114, 105, 112, 116, 105, 111, 110, 125, 125>>)),  \* "description": "{{description}}"
       P(<<105, 109, 97, 103, 101>>, Str(<<123, 123, 109, 97, 105, 110, 73, 109, 97, 103, 101, 125, 125>>)),  \* "image": "{{mainImage}}"
       P(<<97, 117, 116, 104, 111, 114>>,  \* "author":
         Json(<<
           P(<<64, 116, 121, 112, 101>>, Str(<<80, 101, 114, 115, 111, 110>>)),  \* "@type": "Person"
           P(<<110, 97, 109, 101>>, Str(<<123, 123, 97, 117, 116, 104, 111, 114, 78, 97, 109, 101, 125, 125>>))  \* "name": "{{authorName}}"
         >>)),
       P(<<112, 117, 98, 108, 105, 115, 104, 101, 114>>,  \* "publisher":
         Json(<<
           P(<<64, 116, 121, 112, 101>>, Str(<<79, 114, 103, 97, 110, 105, 122, 97, 116, 105, 111, 110>>)),  \* "@type": "Organization"
           P(<<110, 97, 109, 101>>, Str(<<123, 123, 112, 117, 98, 108, 105, 115, 104, 101, 114, 78, 97, 109, 101, 125, 125>>)),  \* "name": "{{publisherName}}"
           P(<<108, 111, 103, 111>>,  \* "logo":
             Json(<<
               P(<<64, 116, 121, 112, 101>>, Str(<<73, 109, 97, 103, 101, 79, 98, 106, 101, 99, 116>>)),  \* "@type": "ImageObject"
               P(<<117, 114, 108>>, Str(<<123, 123, 112, 117, 98, 108, 105, 115, 104, 101, 114, 76, 111, 103, 111, 125, 125>>))  \* "url": "{{publisherLogo}}"
             >>))
         >>)),
       P(<<100, 97, 116, 101, 80, 117, 98, 108, 105, 115, 104, 101, 100>>, Str(<<123, 123, 112, 117, 98, 108, 105, 115, 104, 68, 97, 116, 101, 125, 125>>)),  \* "datePublished": "{{publishDate}}"
       P(<<100, 97, 116, 101, 77, 111, 100, 105, 102, 105, 101, 100>>, Str(<<123, 123, 109, 111, 100, 105, 102, 105, 101, 100, 68, 97, 116, 101, 125, 125>>)),  \* "dateModified": "{{modifiedDate}}"
       P(<<109, 97, 105, 110, 69, 110, 116, 105, 116, 121, 79, 102, 80, 97, 103, 101>>,  \* "mainEntityOfPage":
         Json(<<
           P(<<64, 116, 121, 112, 101>>, Str(<<87, 101, 98, 80, 97, 103, 101>>)),  \* "@type": "WebPage"
           P(<<64, 105, 100>>, Str(<<123, 123, 117, 114, 108, 125, 125>>))  \* "@id": "{{url}}"
         >>)),
       P(<<97, 114, 116, 105, 99, 108, 101, 83, 101, 99, 116, 105, 111, 110>>, Str(<<123, 123, 99, 97, 116, 101, 103, 111, 114, 121, 125, 125>>))  \* "articleSection": "{{category}}"
     >>),
   BlogPosting |->
     Json(<<
       P(<<64, 99, 111, 110, 116, 101, 120, 116>>, Str(<<104, 116, 116, 112, 115, 58, 47, 47, 115, 99, 104, 101, 109, 97, 46, 111, 114, 103>>)),  \* "@context": "https://schema.org"
       P(<<64, 116, 121, 112, 101>>, Str(<<66, 108, 111, 103, 80, 111, 115, 116, 105, 110, 103>>)),  \* "@type": "BlogPosting"
       P(<<104, 101, 97, 100, 108, 105, 110, 101>>, Str(<<123, 123, 116, 105, 116, 108, 101, 125, 125>>)),  \* "headline": "{{title}}"
       P(<<100, 101, 115, 99, 114, 105, 112, 116, 105, 111, 110>>, Str(<<123, 123, 100, 101, 115, 99, 114, 105, 112, 116, 105, 111, 110, 125, 125>>)),  \* "description": "{{description}}"
       P(<<105, 109, 97, 103, 101>>, Str(<<123, 123, 109, 97, 105, 110, 73, 109, 97, 103, 101, 125, 125>>)),  \* "image": "{{mainImage}}"
       P(<<97, 117, 116, 104, 111, 114>>,  \* "author":
         Json(<<
           P(<<64, 116, 121, 112, 101>>, Str(<<80, 101, 114, 115, 111, 110>>)),  \* "@type": "Person"
           P(<<110, 97, 109, 101>>, Str(<<123, 123, 97, 117, 116, 104, 111, 114, 78, 97, 109, 101, 125, 125>>))  \* "name": "{{authorName}}"
         >>)),
       P(<<112, 117, 98, 108, 105, 115, 104, 101, 114>>,  \* "publisher":
         Json(<<
           P(<<64, 116, 121, 112, 101>>, Str(<<79, 114, 103, 97, 110, 105, 122, 97, 116, 105, 111, 110>>)),  \* "@type": "Organization"
           P(<<110, 97, 109, 101>>, Str(<<123, 123, 112, 117, 98, 108, 105, 115, 104, 101, 114, 78, 97, 109, 101, 125, 125>>)),  \* "name": "{{publisherName}}"
           P(<<108, 111, 103, 111>>,  \* "logo":
             Json(<<
               P(<<64, 116, 121, 112, 101>>, Str(<<73, 109, 97, 103, 101, 79, 98, 106, 101, 99, 116>>)),  \* "@type": "ImageObject"
               P(<<117, 114, 108>>, Str(<<123, 123, 112, 117, 98, 108, 105, 115, 104, 101, 114, 76, 111, 103, 111, 125, 125>>))  \* "url": "{{publisherLogo}}"
             >>))
         >>)),
       P(<<100, 97, 116, 101, 80, 117, 98, 108, 105, 115, 104, 101, 100>>, Str(<<123, 123, 112, 117, 98, 108, 105, 115, 104, 68, 97, 116, 101, 125, 125>>)),  \* "datePublished": "{{publishDate}}"
       P(<<100, 97, 116, 101, 77, 111, 100, 105, 102, 105, 101, 100>>, Str(<<123, 123, 109, 111, 100, 105, 102, 105, 101, 100, 68, 97, 116, 101, 125, 125>>)),  \* "dateModified": "{{modifiedDate}}"
       P(<<109, 97, 105, 110, 69, 110, 116, 105, 116, 121, 79, 102, 80, 97, 103, 101>>,  \* "mainEntityOfPage":
         Json(<<
           P(<<64, 116, 121, 112, 101>>, Str(<<87, 101, 98, 80, 97, 103, 101>>)),  \* "@type": "WebPage"
           P(<<64, 105, 100>>, Str(<<123, 123, 117, 114, 108, 125, 125>>))  \* "@id": "{{url}}"
         >>)),
       P(<<107, 101, 121, 119, 111, 114, 100, 115>>, Str(<<123, 123, 107, 101, 121, 119, 111, 114, 100, 115, 125, 125>>))  \* "keywords": "{{keywords}}"
     >>),
   Product |->
     Json(<<
       P(<<64, 99, 111, 110, 116, 101, 120, 116>>, Str(<<104, 116, 116, 112, 115, 58, 47, 47, 115, 99, 104, 101, 109, 97, 46, 111, 114, 103>>)),  \* "@context": "https://schema.org"
       P(<<64, 116, 121, 112, 101>>, Str(<<80, 114, 111, 100, 117, 99, 116>>)),  \* "@type": "Product"
       P(<<110, 97, 109, 101>>, Str(<<123, 123, 112, 114, 111, 100, 117, 99, 116, 78, 97, 109, 101, 125, 125>>)),  \* "name": "{{productName}}"
       P(<<100, 101, 115, 99, 114, 105, 112, 116, 105, 111, 110>>, Str(<<123, 123, 100, 101, 115, 99, 114, 105, 112, 116, 105, 111, 110, 125, 125>>)),  \* "description": "{{description}}"
       P(<<105, 109, 97, 103, 101>>, Str(<<123, 123, 112, 114, 111, 100, 117, 99, 116, 73, 109, 97, 103, 101, 125, 125>>)),  \* "image": "{{productImage}}"
       P(<<98, 114, 97, 110, 100>>,  \* "brand":
         Json(<<
           P(<<64, 116, 121, 112, 101>>, Str(<<66, 114, 97, 110, 100>>)),  \* "@type": "Brand"
           P(<<110, 97, 109, 101>>, Str(<<123, 123, 98, 114, 97, 110, 100, 78, 97, 109, 101, 125, 125>>))  \* "name": "{{brandName}}"
         >>)),
       P(<<111, 102, 102, 101, 114, 115>>,  \* "offers":
         Json(<<
           P(<<64, 116, 121, 112, 101>>, Str(<<79, 102, 102, 101, 114>>)),  \* "@type": "Offer"
           P(<<112, 114, 105, 99, 101>>, Str(<<123, 123, 112, 114, 105, 99, 101, 125, 125>>)),  \* "price": "{{price}}"
           P(<<112, 114, 105, 99, 101, 67, 117, 114, 114, 101, 110, 99, 121>>, Str(<<74, 80, 89>>)),  \* "priceCurrency": "JPY"
           P(<<97, 118, 97, 105, 108, 97, 98, 105, 108, 105, 116, 121>>, Str(<<123, 123, 97, 118, 97, 105, 108, 97, 98, 105, 108, 105, 116, 121, 125, 125>>)),  \* "availability": "{{availability}}"
           P(<<115, 101, 108, 108, 101, 114>>,  \* "seller":
             Json(<<
               P(<<64, 116, 121, 112, 101>>, Str(<<79, 114, 103, 97, 110, 105, 122, 97, 116, 105, 111, 110>>)),  \* "@type": "Organization"
               P(<<110, 97, 109, 101>>, Str(<<123, 123, 115, 101, 108, 108, 101, 114, 78, 97, 109, 101, 125, 125>>))  \* "name": "{{sellerName}}"
             >>))
         >>)),
       P(<<97, 103, 103, 114, 101, 103, 97, 116, 101, 82, 97, 116, 105, 110, 103>>,  \* "aggregateRating":
         Json(<<
           P(<<64, 116, 121, 112, 101>>, Str(<<65, 103, 103, 114, 101, 103, 97, 116, 101, 82, 97, 116, 105, 110, 103>>)),  \* "@type": "AggregateRating"
           P(<<114, 97, 116, 105, 110, 103, 86, 97, 108, 117, 101>>, Str(<<123, 123, 114, 97, 116, 105, 110, 103, 86, 97, 108, 117, 101, 125, 125>>)),  \* "ratingValue": "{{ratingValue}}"
           P(<<114, 101, 118, 105, 101, 119, 67, 111, 117, 110, 116>>, Str(<<123, 123, 114, 101, 118, 105, 101, 119, 67, 111, 117, 110, 116, 125, 125>>))  \* "reviewCount": "{{reviewCount}}"
         >>)),
       P(<<115, 107, 117>>, Str(<<123, 123, 115, 107, 117, 125, 125>>)),  \* "sku": "{{sku}}"
       P(<<103, 116, 105, 110>>, Str(<<123, 123, 103, 116, 105, 110, 125, 125>>))  \* "gtin": "{{gtin}}"
     >>),
   LocalBusiness |->
     Json(<<
       P(<<64, 99, 111, 110, 116, 101, 120, 116>>, Str(<<104, 116, 116, 112, 115, 58, 47, 47, 115, 99, 104, 101, 109, 97, 46, 111, 114, 103>>)),  \* "@context": "https://schema.org"
       P(<<64, 116, 121, 112, 101>>, Str(<<76, 111, 99, 97, 108, 66, 117, 115, 105, 110, 101, 115, 115>>)),  \* "@type": "LocalBusiness"
       P(<<110, 97, 109, 101>>, Str(<<123, 123, 98, 117, 115, 105, 110, 101, 115, 115, 78, 97, 109, 101, 125, 125>>)),  \* "name": "{{businessName}}"
       P(<<100, 101, 115, 99, 114, 105, 112, 116, 105, 111, 110>>, Str(<<123, 123, 100, 101, 115, 99, 114, 105, 112, 116, 105, 111, 110, 125, 125>>)),  \* "description": "{{description}}"
       P(<<105, 109, 97, 103, 101>>, Str(<<123, 123, 98, 117, 115, 105, 110, 101, 115, 115, 73, 109, 97, 103, 101, 125, 125>>)),  \* "image": "{{businessImage}}"
       P(<<97, 100, 100, 114, 101, 115, 115>>,  \* "address":
         Json(<<
           P(<<64, 116, 121, 112, 101>>, Str(<<80, 111, 115, 116, 97, 108, 65, 100, 100, 114, 101, 115, 115>>)),  \* "@type": "PostalAddress"
           P(<<115, 116, 114, 101, 101, 116, 65, 100, 100, 114, 101, 115, 115>>, Str(<<123, 123, 115, 116, 114, 101, 101, 116, 65, 100, 100, 114, 101, 115, 115, 125, 125>>)),  \* "streetAddress": "{{streetAddress}}"
           P(<<97, 100, 100, 114, 101, 115, 115, 76, 111, 99, 97, 108, 105, 116, 121>>, Str(<<123, 123, 99, 105, 116, 121, 125, 125>>)),  \* "addressLocality": "{{city}}"
           P(<<97, 100, 100, 114, 101, 115, 115, 82, 101, 103, 105, 111, 110>>, Str(<<123, 123, 115, 116, 97, 116, 101, 125, 125>>)),  \* "addressRegion": "{{state}}"
           P(<<112, 111, 115, 116, 97, 108, 67, 111, 100, 101>>, Str(<<123, 123, 112, 111, 115, 116, 97, 108, 67, 111, 100, 101, 125, 125>>)),  \* "postalCode": "{{postalCode}}"
           P(<<97, 100, 100, 114, 101, 115, 115, 67, 111, 117, 110, 116, 114, 121>>, Str(<<74, 80>>))  \* "addressCountry": "JP"
         >>)),
       P(<<116, 101, 108, 101, 112, 104, 111, 110, 101>>, Str(<<123, 123, 112, 104, 111, 110, 101, 125, 125>>)),  \* "telephone": "{{phone}}"
       P(<<117, 114, 108>>, Str(<<123, 123, 119, 101, 98, 115, 105, 116, 101, 125, 125>>)),  \* "url": "{{website}}"
       P(<<103, 101, 111>>,  \* "geo":
         Json(<<
           P(<<64, 116, 121, 112, 101>>, Str(<<71, 101, 111, 67, 111, 111, 114, 100, 105, 110, 97, 116, 101, 115>>)),  \* "@type": "GeoCoordinates"
           P(<<108, 97, 116, 105, 116, 117, 100, 101>>, Str(<<123, 123, 108, 97, 116, 105, 116, 117, 100, 101, 125, 125>>)),  \* "latitude": "{{latitude}}"
           P(<<108, 111, 110, 103, 105, 116, 117, 100, 101>>, Str(<<123, 123, 108, 111, 110, 103, 105, 116, 117, 100, 101, 125, 125>>))  \* "longitude": "{{longitude}}"
         >>)),
       P(<<111, 112, 101, 110, 105, 110, 103, 72, 111, 117, 114, 115, 83, 112, 101, 99, 105, 102, 105, 99, 97, 116, 105, 111, 110>>,  \* "openingHoursSpecification":
         Arr(<<
           Json(<<
             P(<<64, 116, 121, 112, 101>>, Str(<<79, 112, 101, 110, 105, 110, 103, 72, 111, 117, 114, 115, 83, 112, 101, 99, 105, 102, 105, 99, 97, 116, 105, 111, 110>>)),  \* "@type": "OpeningHoursSpecification"
             P(<<100, 97, 121, 79, 102, 87, 101, 101, 107>>,  \* "dayOfWeek":
               Arr(<<Str(<<77, 111, 110, 100, 97, 121>>), Str(<<84, 117, 101, 115, 100, 97, 121>>), Str(<<87, 101, 100, 110, 101, 115, 100, 97, 121>>), Str(<<84, 104, 117, 114, 115, 100, 97, 121>>), Str(<<70, 114, 105, 100, 97, 121>>)>>)),
             P(<<111, 112, 101, 110, 115>>, Str(<<123, 123, 119, 101, 101, 107, 100, 97, 121, 79, 112, 101, 110, 125, 125>>)),  \* "opens": "{{weekdayOpen}}"
             P(<<99, 108, 111, 115, 101, 115>>, Str(<<123, 123, 119, 101, 101, 107, 100, 97, 121, 67, 108, 111, 115, 101, 125, 125>>))  \* "closes": "{{weekdayClose}}"
           >>)
         >>)),
       P(<<112, 114, 105, 99, 101, 82, 97, 110, 103, 101>>, Str(<<123, 123, 112, 114, 105, 99, 101, 82, 97, 110, 103, 101, 125, 125>>))  \* "priceRange": "{{priceRange}}"
     >>),
   Recipe |->
     Json(<<
       P(<<64, 99, 111, 110, 116, 101, 120, 116>>, Str(<<104, 116, 116, 112, 115, 58, 47, 47, 115, 99, 104, 101, 109, 97, 46, 111, 114, 103>>)),  \* "@context": "https://schema.org"
       P(<<64, 116, 121, 112, 101>>, Str(<<82, 101, 99, 105, 112, 101>>)),  \* "@type": "Recipe"
       P(<<110, 97, 109, 101>>, Str(<<123, 123, 114, 101, 99, 105, 112, 101, 78, 97, 109, 101, 125, 125>>)),  \* "name": "{{recipeName}}"
       P(<<100, 101, 115, 99, 114, 105, 112, 116, 105, 111, 110>>, Str(<<123, 123, 100, 101, 115, 99, 114, 105, 112, 116, 105, 111, 110, 125, 125>>)),  \* "description": "{{description}}"
       P(<<105, 109, 97, 103, 101>>, Str(<<123, 123, 114, 101, 99, 105, 112, 101, 73, 109, 97, 103, 101, 125, 125>>)),  \* "image": "{{recipeImage}}"
       P(<<97, 117, 116, 104, 111, 114>>,  \* "author":
         Json(<<
           P(<<64, 116, 121, 112, 101>>, Str(<<80, 101, 114, 115, 111, 110>>)),  \* "@type": "Person"
           P(<<110, 97, 109, 101>>, Str(<<123, 123, 97, 117, 116, 104, 111, 114, 78, 97, 109, 101, 125, 125>>))  \* "name": "{{authorName}}"
         >>)),
       P(<<112, 114, 101, 112, 84, 105, 109, 101>>, Str(<<123, 123, 112, 114, 101, 112, 84, 105, 109, 101, 125, 125>>)),  \* "prepTime": "{{prepTime}}"
       P(<<99, 111, 111, 107, 84, 105, 109, 101>>, Str(<<123, 123, 99, 111, 111, 107, 84, 105, 109, 101, 125, 125>>)),  \* "cookTime": "{{cookTime}}"
       P(<<116, 111, 116, 97, 108, 84, 105, 109, 101>>, Str(<<123, 123, 116, 111, 116, 97, 108, 84, 105, 109, 101, 125, 125>>)),  \* "totalTime": "{{totalTime}}"
       P(<<114, 101, 99, 105, 112, 101, 89, 105, 101, 108, 100>>, Str(<<123, 123, 115, 101, 114, 118, 105, 110, 103, 115, 125, 125>>)),  \* "recipeYield": "{{servings}}"
       P(<<114, 101, 99, 105, 112, 101, 67, 97, 116, 101, 103, 111, 114, 121>>, Str(<<123, 123, 99, 97, 116, 101, 103, 111, 114, 121, 125, 125>>)),  \* "recipeCategory": "{{category}}"
       P(<<114, 101, 99, 105, 112, 101, 67, 117, 105, 115, 105, 110, 101>>, Str(<<123, 123, 99, 117, 105, 115, 105, 110, 101, 125, 125>>)),  \* "recipeCuisine": "{{cuisine}}"
       P(<<114, 101, 99, 105, 112, 101, 73, 110, 103, 114, 101, 100, 105, 101, 110, 116>>, Str(<<123, 123, 105, 110, 103, 114, 101, 100, 105, 101, 110, 116, 115, 125, 125>>)),  \* "recipeIngredient": "{{ingredients}}"
       P(<<114, 101, 99, 105, 112, 101, 73, 110, 115, 116, 114, 117, 99, 116, 105, 111, 110, 115>>, Str(<<123, 123, 105, 110, 115, 116, 114, 117, 99, 116, 105, 111, 110, 115, 125, 125>>)),  \* "recipeInstructions": "{{instructions}}"
       P(<<110, 117, 116, 114, 105, 116, 105, 111, 110>>,  \* "nutrition":
         Json(<<
           P(<<64, 116, 121, 112, 101>>, Str(<<78, 117, 116, 114, 105, 116, 105, 111, 110, 73, 110, 102, 111, 114, 109, 97, 116, 105, 111, 110>>)),  \* "@type": "NutritionInformation"
           P(<<99, 97, 108, 111, 114, 105, 101, 115>>, Str(<<123, 123, 99, 97, 108, 111, 114, 105, 101, 115, 125, 125>>))  \* "calories": "{{calories}}"
         >>)),
       P(<<97, 103, 103, 114, 101, 103, 97, 116, 101, 82, 97, 116, 105, 110, 103>>,  \* "aggregateRating":
         Json(<<
           P(<<64, 116, 121, 112, 101>>, Str(<<65, 103, 103, 114, 101, 103, 97, 116, 101, 82, 97, 116, 105, 110, 103>>)),  \* "@type": "AggregateRating"
           P(<<114, 97, 116, 105, 110, 103, 86, 97, 108, 117, 101>>, Str(<<123, 123, 114, 97, 116, 105, 110, 103, 86, 97, 108, 117, 101, 125, 125>>)),  \* "ratingValue": "{{ratingValue}}"
           P(<<114, 101, 118, 105, 101, 119, 67, 111, 117, 110, 116>>, Str(<<123, 123, 114, 101, 118, 105, 101, 119, 67, 111, 117, 110, 116, 125, 125>>))  \* "reviewCount": "{{reviewCount}}"
         >>))
     >>),
   Event |->
     Json(<<
       P(<<64, 99, 111, 110, 116, 101, 120, 116>>, Str(<<104, 116, 116, 112, 115, 58, 47, 47, 115, 99, 104, 101, 109, 97, 46, 111, 114, 103>>)),  \* "@context": "https://schema.org"
       P(<<64, 116, 121, 112, 101>>, Str(<<69, 118, 101, 110, 116>>)),  \* "@type": "Event"
       P(<<110, 97, 109, 101>>, Str(<<123, 123, 101, 118, 101, 110, 116, 78, 97, 109, 101, 125, 125>>)),  \* "name": "{{eventName}}"
       P(<<100, 101, 115, 99, 114, 105, 112, 116, 105, 111, 110>>, Str(<<123, 123, 100, 101, 115, 99, 114, 105, 112, 116, 105, 111, 110, 125, 125>>)),  \* "description": "{{description}}"
       P(<<105, 109, 97, 103, 101>>, Str(<<123, 123, 101, 118, 101, 110, 116, 73, 109, 97, 103, 101, 125, 125>>)),  \* "image": "{{eventImage}}"
       P(<<115, 116, 97, 114, 116, 68, 97, 116, 101>>, Str(<<123, 123, 115, 116, 97, 114, 116, 68, 97, 116, 101, 125, 125>>)),  \* "startDate": "{{startDate}}"
       P(<<101, 110, 100, 68, 97, 116, 101>>, Str(<<123, 123, 101, 110, 100, 68, 97, 116, 101, 125, 125>>)),  \* "endDate": "{{endDate}}"
       P(<<108, 111, 99, 97, 116, 105, 111, 110>>,  \* "location":
         Json(<<
           P(<<64, 116, 121, 112, 101>>, Str(<<80, 108, 97, 99, 101>>)),  \* "@type": "Place"
           P(<<110, 97, 109, 101>>, Str(<<123, 123, 118, 101, 110, 117, 101, 78, 97, 109, 101, 125, 125>>)),  \* "name": "{{venueName}}"
           P(<<97, 100, 100, 114, 101, 115, 115>>,  \* "address":
             Json(<<
               P(<<64, 116, 121, 112, 101>>, Str(<<80, 111, 115, 116, 97, 108, 65, 100, 100, 114, 101, 115, 115>>)),  \* "@type": "PostalAddress"
               P(<<115, 116, 114, 101, 101, 116, 65, 100, 100, 114, 101, 115, 115>>, Str(<<123, 123, 115, 116, 114, 101, 101, 116, 65, 100, 100, 114, 101, 115, 115, 125, 125>>)),  \* "streetAddress": "{{streetAddress}}"
               P(<<97, 100, 100, 114, 101, 115, 115, 76, 111, 99, 97, 108, 105, 116, 121>>, Str(<<123, 123, 99, 105, 116, 121, 125, 125>>)),  \* "addressLocality": "{{city}}"
               P(<<97, 100, 100, 114, 101, 115, 115, 82, 101, 103, 105, 111, 110>>, Str(<<123, 123, 115, 116, 97, 116, 101, 125, 125>>)),  \* "addressRegion": "{{state}}"
               P(<<112, 111, 115, 116, 97, 108, 67, 111, 100, 101>>, Str(<<123, 123, 112, 111, 115, 116, 97, 108, 67, 111, 100, 101, 125, 125>>)),  \* "postalCode": "{{postalCode}}"
               P(<<97, 100, 100, 114, 101, 115, 115, 67, 111, 117, 110, 116, 114, 121>>, Str(<<74, 80>>))  \* "addressCountry": "JP"
             >>))
         >>)),
       P(<<111, 114, 103, 97, 110, 105, 122, 101, 114>>,  \* "organizer":
         Json(<<
           P(<<64, 116, 121, 112, 101>>, Str(<<79, 114, 103, 97, 110, 105, 122, 97, 116, 105, 111, 110>>)),  \* "@type": "Organization"
           P(<<110, 97, 109, 101>>, Str(<<123, 123, 111, 114, 103, 97, 110, 105, 122, 101, 114, 78, 97, 109, 101, 125, 125>>)),  \* "name": "{{organizerName}}"
           P(<<117, 114, 108>>, Str(<<123, 123, 111, 114, 103, 97, 110, 105, 122, 101, 114, 85, 114, 108, 125, 125>>))  \* "url": "{{organizerUrl}}"
         >>)),
       P(<<111, 102, 102, 101, 114, 115>>,  \* "offers":
         Json(<<
           P(<<64, 116, 121, 112, 101>>, Str(<<79, 102, 102, 101, 114>>)),  \* "@type": "Offer"
           P(<<112, 114, 105, 99, 101>>, Str(<<123, 123, 116, 105, 99, 107, 101, 116, 80, 114, 105, 99, 101, 125, 125>>)),  \* "price": "{{ticketPrice}}"
           P(<<112, 114, 105, 99, 101, 67, 117, 114, 114, 101, 110, 99, 121>>, Str(<<74, 80, 89>>)),  \* "priceCurrency": "JPY"
           P(<<97, 118, 97, 105, 108, 97, 98, 105, 108, 105, 116, 121>>, Str(<<123, 123, 97, 118, 97, 105, 108, 97, 98, 105, 108, 105, 116, 121, 125, 125>>)),  \* "availability": "{{availability}}"
           P(<<117, 114, 108>>, Str(<<123, 123, 116, 105, 99, 107, 101, 116, 85, 114, 108, 125, 125>>))  \* "url": "{{ticketUrl}}"
         >>))
     >>),
   FAQPage |->
     Json(<<
       P(<<64, 99, 111, 110, 116, 101, 120, 116>>, Str(<<104, 116, 116, 112, 115, 58, 47, 47, 115, 99, 104, 101, 109, 97, 46, 111, 114, 103>>)),  \* "@context": "https://schema.org"
       P(<<64, 116, 121, 112, 101>>, Str(<<70, 65, 81, 80, 97, 103, 101>>)),  \* "@type": "FAQPage"
       P(<<109, 97, 105, 110, 69, 110, 116, 105, 116, 121>>, Str(<<123, 123, 102, 97, 113, 73, 116, 101, 109, 115, 125, 125>>))  \* "mainEntity": "{{faqItems}}"
     >>),
   HowTo |->
     Json(<<
       P(<<64, 99, 111, 110, 116, 101, 120, 116>>, Str(<<104, 116, 116, 112, 115, 58, 47, 47, 115, 99, 104, 101, 109, 97, 46, 111, 114, 103>>)),  \* "@context": "https://schema.org"
       P(<<64, 116, 121, 112, 101>>, Str(<<72, 111, 119, 84, 111>>)),  \* "@type": "HowTo"
       P(<<110, 97, 109, 101>>, Str(<<123, 123, 116, 105, 116, 108, 101, 125, 125>>)),  \* "name": "{{title}}"
       P(<<100, 101, 115, 99, 114, 105, 112, 116, 105, 111, 110>>, Str(<<123, 123, 100, 101, 115, 99, 114, 105, 112, 116, 105, 111, 110, 125, 125>>)),  \* "description": "{{description}}"
       P(<<105, 109, 97, 103, 101>>, Str(<<123, 123, 105, 109, 97, 103, 101, 125, 125>>)),  \* "image": "{{image}}"
       P(<<116, 111, 116, 97, 108, 84, 105, 109, 101>>, Str(<<123, 123, 116, 111, 116, 97, 108, 84, 105, 109, 101, 125, 125>>)),  \* "totalTime": "{{totalTime}}"
       P(<<115, 117, 112, 112, 108, 121>>, Str(<<123, 123, 115, 117, 112, 112, 108, 105, 101, 115, 125, 125>>)),  \* "supply": "{{supplies}}"
       P(<<116, 111, 111, 108>>, Str(<<123, 123, 116, 111, 111, 108, 115, 125, 125>>)),  \* "tool": "{{tools}}"
       P(<<115, 116, 101, 112>>, Str(<<123, 123, 115, 116, 101, 112, 115, 125, 125>>))  \* "step": "{{steps}}"
     >>),
   Review |->
     Json(<<
       P(<<64, 99, 111, 110, 116, 101, 120, 116>>, Str(<<104, 116, 116, 112, 115, 58, 47, 47, 115, 99, 104, 101, 109, 97, 46, 111, 114, 103>>)),  \* "@context": "https://schema.org"
       P(<<64, 116, 121, 112, 101>>, Str(<<82, 101, 118, 105, 101, 119>>)),  \* "@type": "Review"
       P(<<105, 116, 101, 109, 82, 101, 118, 105, 101, 119, 101, 100>>,  \* "itemReviewed":
         Json(<<
           P(<<64, 116, 121, 112, 101>>, Str(<<123, 123, 114, 101, 118, 105, 101, 119, 101, 100, 73, 116, 101, 109, 84, 121, 112, 101, 125, 125>>)),  \* "@type": "{{reviewedItemType}}"
           P(<<110, 97, 109, 101>>, Str(<<123, 123, 114, 101, 118, 105, 101, 119, 101, 100, 73, 116, 101, 109, 78, 97, 109, 101, 125, 125>>))  \* "name": "{{reviewedItemName}}"
         >>)),
       P(<<114, 101, 118, 105, 101, 119, 82, 97, 116, 105, 110, 103>>,  \* "reviewRating":
         Json(<<
           P(<<64, 116, 121, 112, 101>>, Str(<<82, 97, 116, 105, 110, 103>>)),  \* "@type": "Rating"
           P(<<114, 97, 116, 105, 110, 103, 86, 97, 108, 117, 101>>, Str(<<123, 123, 114, 97, 116, 105, 110, 103, 86, 97, 108, 117, 101, 125, 125>>)),  \* "ratingValue": "{{ratingValue}}"
           P(<<98, 101, 115, 116, 82, 97, 116, 105, 110, 103>>, Str(<<53>>))  \* "bestRating": "5"
         >>)),
       P(<<97, 117, 116, 104, 111, 114>>,  \* "author":
         Json(<<
           P(<<64, 116, 121, 112, 101>>, Str(<<80, 101, 114, 115, 111, 110>>)),  \* "@type": "Person"
           P(<<110, 97, 109, 101>>, Str(<<123, 123, 97, 117, 116, 104, 111, 114, 78, 97, 109, 101, 125, 125>>))  \* "name": "{{authorName}}"
         >>)),
       P(<<114, 101, 118, 105, 101, 119, 66, 111, 100, 121>>, Str(<<123, 123, 114, 101, 118, 105, 101, 119, 84, 101, 120, 116, 125, 125>>)),  \* "reviewBody": "{{reviewText}}"
       P(<<100, 97, 116, 101, 80, 117, 98, 108, 105, 115, 104, 101, 100>>, Str(<<123, 123, 112, 117, 98, 108, 105, 115, 104, 68, 97, 116, 101, 125, 125>>))  \* "datePublished": "{{publishDate}}"
     >>),
   JobPosting |->
     Json(<<
       P(<<64, 99, 111, 110, 116, 101, 120, 116>>, Str(<<104, 116, 116, 112, 115, 58, 47, 47, 115, 99, 104, 101, 109, 97, 46, 111, 114, 103>>)),  \* "@context": "https://schema.org"
       P(<<64, 116, 121, 112, 101>>, Str(<<74, 111, 98, 80, 111, 115, 116, 105, 110, 103>>)),  \* "@type": "JobPosting"
       P(<<116, 105, 116, 108, 101>>, Str(<<123, 123, 106, 111, 98, 84, 105, 116, 108, 101, 125, 125>>)),  \* "title": "{{jobTitle}}"
       P(<<100, 101, 115, 99, 114, 105, 112, 116, 105, 111, 110>>, Str(<<123, 123, 106, 111, 98, 68, 101, 115, 99, 114, 105, 112, 116, 105, 111, 110, 125, 125>>)),  \* "description": "{{jobDescription}}"
       P(<<104, 105, 114, 105, 110, 103, 79, 114, 103, 97, 110, 105, 122, 97, 116, 105, 111, 110>>,  \* "hiringOrganization":
         Json(<<
           P(<<64, 116, 121, 112, 101>>, Str(<<79, 114, 103, 97, 110, 105, 122, 97, 116, 105, 111, 110>>)),  \* "@type": "Organization"
           P(<<110, 97, 109, 101>>, Str(<<123, 123, 99, 111, 109, 112, 97, 110, 121, 78, 97, 109, 101, 125, 125>>)),  \* "name": "{{companyName}}"
           P(<<115, 97, 109, 101, 65, 115>>, Str(<<123, 123, 99, 111, 109, 112, 97, 110, 121, 85, 114, 108, 125, 125>>))  \* "sameAs": "{{companyUrl}}"
         >>)),
       P(<<106, 111, 98, 76, 111, 99, 97, 116, 105, 111, 110>>,  \* "jobLocation":
         Json(<<
           P(<<64, 116, 121, 112, 101>>, Str(<<80, 108, 97, 99, 101>>)),  \* "@type": "Place"
           P(<<97, 100, 100, 114, 101, 115, 115>>,  \* "address":
             Json(<<
               P(<<64, 116, 121, 112, 101>>, Str(<<80, 111, 115, 116, 97, 108, 65, 100, 100, 114, 101, 115, 115>>)),  \* "@type": "PostalAddress"
               P(<<97, 100, 100, 114, 101, 115, 115, 76, 111, 99, 97, 108, 105, 116, 121>>, Str(<<123, 123, 99, 105, 116, 121, 125, 125>>)),  \* "addressLocality": "{{city}}"
               P(<<97, 100, 100, 114, 101, 115, 115, 82, 101, 103, 105, 111, 110>>, Str(<<123, 123, 115, 116, 97, 116, 101, 125, 125>>)),  \* "addressRegion": "{{state}}"
               P(<<97, 100, 100, 114, 101, 115, 115, 67, 111, 117, 110, 116, 114, 121>>, Str(<<74, 80>>))  \* "addressCountry": "JP"
             >>))
         >>)),
       P(<<98, 97, 115, 101, 83, 97, 108, 97, 114, 121>>,  \* "baseSalary":
         Json(<<
           P(<<64, 116, 121, 112, 101>>, Str(<<77, 111, 110, 101, 116, 97, 114, 121, 65, 109, 111, 117, 110, 116>>)),  \* "@type": "MonetaryAmount"
           P(<<99, 117, 114, 114, 101, 110, 99, 121>>, Str(<<74, 80, 89>>)),  \* "currency": "JPY"
           P(<<118, 97, 108, 117, 101>>,  \* "value":
             Json(<<
               P(<<64, 116, 121, 112, 101>>, Str(<<81, 117, 97, 110, 116, 105, 116, 97, 116, 105, 118, 101, 86, 97, 108, 117, 101>>)),  \* "@type": "QuantitativeValue"
               P(<<109, 105, 110, 86, 97, 108, 117, 101>>, Str(<<123, 123, 109, 105, 110, 83, 97, 108, 97, 114, 121, 125, 125>>)),  \* "minValue": "{{minSalary}}"
               P(<<109, 97, 120, 86, 97, 108, 117, 101>>, Str(<<123, 123, 109, 97, 120, 83, 97, 108, 97, 114, 121, 125, 125>>)),  \* "maxValue": "{{maxSalary}}"
               P(<<117, 110, 105, 116, 84, 101, 120, 116>>, Str(<<77, 79, 78, 84, 72>>))  \* "unitText": "MONTH"
             >>))
         >>)),
       P(<<101, 109, 112, 108, 111, 121, 109, 101, 110, 116, 84, 121, 112, 101>>, Str(<<123, 123, 101, 109, 112, 108, 111, 121, 109, 101, 110, 116, 84, 121, 112, 101, 125, 125>>)),  \* "employmentType": "{{employmentType}}"
       P(<<100, 97, 116, 101, 80, 111, 115, 116, 101, 100>>, Str(<<123, 123, 112, 111, 115, 116, 68, 97, 116, 101, 125, 125>>)),  \* "datePosted": "{{postDate}}"
       P(<<118, 97, 108, 105, 100, 84, 104, 114, 111, 117, 103, 104>>, Str(<<123, 123, 118, 97, 108, 105, 100, 84, 104, 114, 111, 117, 103, 104, 125, 125>>))  \* "validThrough": "{{validThrough}}"
     >>),
   Course |->
     Json(<<
       P(<<64, 99, 111, 110, 116, 101, 120, 116>>, Str(<<104, 116, 116, 112, 115, 58, 47, 47, 115, 99, 104, 101, 109, 97, 46, 111, 114, 103>>)),  \* "@context": "https://schema.org"
       P(<<64, 116, 121, 112, 101>>, Str(<<67, 111, 117, 114, 115, 101>>)),  \* "@type": "Course"
       P(<<110, 97, 109, 101>>, Str(<<123, 123, 99, 111, 117, 114, 115, 101, 78, 97, 109, 101, 125, 125>>)),  \* "name": "{{courseName}}"
       P(<<100, 101, 115, 99, 114, 105, 112, 116, 105, 111, 110>>, Str(<<123, 123, 100, 101, 115, 99, 114, 105, 112, 116, 105, 111, 110, 125, 125>>)),  \* "description": "{{description}}"
       P(<<112, 114, 111, 118, 105, 100, 101, 114>>,  \* "provider":
         Json(<<
           P(<<64, 116, 121, 112, 101>>, Str(<<79, 114, 103, 97, 110, 105, 122, 97, 116, 105, 111, 110>>)),  \* "@type": "Organization"
           P(<<110, 97, 109, 101>>, Str(<<123, 123, 112, 114, 111, 118, 105, 100, 101, 114, 78, 97, 109, 101, 125, 125>>))  \* "name": "{{providerName}}"
         >>)),
       P(<<104, 97, 115, 67, 111, 117, 114, 115, 101, 73, 110, 115, 116, 97, 110, 99, 101>>,  \* "hasCourseInstance":
         Json(<<
           P(<<64, 116, 121, 112, 101>>, Str(<<67, 111, 117, 114, 115, 101, 73, 110, 115, 116, 97, 110, 99, 101>>)),  \* "@type": "CourseInstance"
           P(<<99, 111, 117, 114, 115, 101, 77, 111, 100, 101>>, Str(<<123, 123, 99, 111, 117, 114, 115, 101, 77, 111, 100, 101, 125, 125>>)),  \* "courseMode": "{{courseMode}}"
           P(<<99, 111, 117, 114, 115, 101, 83, 99, 104, 101, 100, 117, 108, 101>>,  \* "courseSchedule":
             Json(<<
               P(<<64, 116, 121, 112, 101>>, Str(<<83, 99, 104, 101, 100, 117, 108, 101>>)),  \* "@type": "Schedule"
               P(<<100, 117, 114, 97, 116, 105, 111, 110>>, Str(<<123, 123, 100, 117, 114, 97, 116, 105, 111, 110, 125, 125>>)),  \* "duration": "{{duration}}"
               P(<<114, 101, 112, 101, 97, 116, 70, 114, 101, 113, 117, 101, 110, 99, 121>>, Str(<<123, 123, 102, 114, 101, 113, 117, 101, 110, 99, 121, 125, 125>>))  \* "repeatFrequency": "{{frequency}}"
             >>)),
           P(<<105, 110, 115, 116, 114, 117, 99, 116, 111, 114>>,  \* "instructor":
             Json(<<
               P(<<64, 116, 121, 112, 101>>, Str(<<80, 101, 114, 115, 111, 110>>)),  \* "@type": "Person"
               P(<<110, 97, 109, 101>>, Str(<<123, 123, 105, 110, 115, 116, 114, 117, 99, 116, 111, 114, 78, 97, 109, 101, 125, 125>>))  \* "name": "{{instructorName}}"
             >>))
         >>)),
       P(<<111, 102, 102, 101, 114, 115>>,  \* "offers":
         Json(<<
           P(<<64, 116, 121, 112, 101>>, Str(<<79, 102, 102, 101, 114>>)),  \* "@type": "Offer"
           P(<<112, 114, 105, 99, 101>>, Str(<<123, 123, 112, 114, 105, 99, 101, 125, 125>>)),  \* "price": "{{price}}"
           P(<<112, 114, 105, 99, 101, 67, 117, 114, 114, 101, 110, 99, 121>>, Str(<<74, 80, 89>>))  \* "priceCurrency": "JPY"
         >>))
     >>),
   Organization |->
     Json(<<
       P(<<64, 99, 111, 110, 116, 101, 120, 116>>, Str(<<104, 116, 116, 112, 115, 58, 47, 47, 115, 99, 104, 101, 109, 97, 46, 111, 114, 103>>)),  \* "@context": "https://schema.org"
       P(<<64, 116, 121, 112, 101>>, Str(<<79, 114, 103, 97, 110, 105, 122, 97, 116, 105, 111, 110>>)),  \* "@type": "Organization"
       P(<<110, 97, 109, 101>>, Str(<<123, 123, 111, 114, 103, 97, 110, 105, 122, 97, 116, 105, 111, 110, 78, 97, 109, 101, 125, 125>>)),  \* "name": "{{organizationName}}"
       P(<<117, 114, 108>>, Str(<<123, 123, 119, 101, 98, 115, 105, 116, 101, 125, 125>>)),  \* "url": "{{website}}"
       P(<<108, 111, 103, 111>>, Str(<<123, 123, 108, 111, 103, 111, 125, 125>>)),  \* "logo": "{{logo}}"
       P(<<100, 101, 115, 99, 114, 105, 112, 116, 105, 111, 110>>, Str(<<123, 123, 100, 101, 115, 99, 114, 105, 112, 116, 105, 111, 110, 125, 125>>)),  \* "description": "{{description}}"
       P(<<97, 100, 100, 114, 101, 115, 115>>,  \* "address":
         Json(<<
           P(<<64, 116, 121, 112, 101>>, Str(<<80, 111, 115, 116, 97, 108, 65, 100, 100, 114, 101, 115, 115>>)),  \* "@type": "PostalAddress"
           P(<<115, 116, 114, 101, 101, 116, 65, 100, 100, 114, 101, 115, 115>>, Str(<<123, 123, 115, 116, 114, 101, 101, 116, 65, 100, 100, 114, 101, 115, 115, 125, 125>>)),  \* "streetAddress": "{{streetAddress}}"
           P(<<97, 100, 100, 114, 101, 115, 115, 76, 111, 99, 97, 108, 105, 116, 121>>, Str(<<123, 123, 99, 105, 116, 121, 125, 125>>)),  \* "addressLocality": "{{city}}"
           P(<<97, 100, 100, 114, 101, 115, 115, 82, 101, 103, 105, 111, 110>>, Str(<<123, 123, 115, 116, 97, 116, 101, 125, 125>>)),  \* "addressRegion": "{{state}}"
           P(<<112, 111, 115, 116, 97, 108, 67, 111, 100, 101>>, Str(<<123, 123, 112, 111, 115, 116, 97, 108, 67, 111, 100, 101, 125, 125>>)),  \* "postalCode": "{{postalCode}}"
           P(<<97, 100, 100, 114, 101, 115, 115, 67, 111, 117, 110, 116, 114, 121>>, Str(<<74, 80>>))  \* "addressCountry": "JP"
         >>)),
       P(<<99, 111, 110, 116, 97, 99, 116, 80, 111, 105, 110, 116>>,  \* "contactPoint":
         Json(<<
           P(<<64, 116, 121, 112, 101>>, Str(<<67, 111, 110, 116, 97, 99, 116, 80, 111, 105, 110, 116>>)),  \* "@type": "ContactPoint"
           P(<<116, 101, 108, 101, 112, 104, 111, 110, 101>>, Str(<<123, 123, 112, 104, 111, 110, 101, 125, 125>>)),  \* "telephone": "{{phone}}"
           P(<<99, 111, 110, 116, 97, 99, 116, 84, 121, 112, 101>>, Str(<<99, 117, 115, 116, 111, 109, 101, 114, 32, 115, 101, 114, 118, 105, 99, 101>>))  \* "contactType": "customer service"
         >>)),
       P(<<115, 97, 109, 101, 65, 115>>, Str(<<123, 123, 115, 111, 99, 105, 97, 108, 80, 114, 111, 102, 105, 108, 101, 115, 125, 125>>))  \* "sameAs": "{{socialProfiles}}"
     >>),
   Person |->
     Json(<<
       P(<<64, 99, 111, 110, 116, 101, 120, 116>>, Str(<<104, 116, 116, 112, 115, 58, 47, 47, 115, 99, 104, 101, 109, 97, 46, 111, 114, 103>>)),  \* "@context": "https://schema.org"
       P(<<64, 116, 121, 112, 101>>, Str(<<80, 101, 114, 115, 111, 110>>)),  \* "@type": "Person"
       P(<<110, 97, 109, 101>>, Str(<<123, 123, 110, 97, 109, 101, 125, 125>>)),  \* "name": "{{name}}"
       P(<<106, 111, 98, 84, 105, 116, 108, 101>>, Str(<<123, 123, 106, 111, 98, 84, 105, 116, 108, 101, 125, 125>>)),  \* "jobTitle": "{{jobTitle}}"
       P(<<97, 102, 102, 105, 108, 105, 97, 116, 105, 111, 110>>,  \* "affiliation":
         Json(<<
           P(<<64, 116, 121, 112, 101>>, Str(<<79, 114, 103, 97, 110, 105, 122, 97, 116, 105, 111, 110>>)),  \* "@type": "Organization"
           P(<<110, 97, 109, 101>>, Str(<<123, 123, 111, 114, 103, 97, 110, 105, 122, 97, 116, 105, 111, 110, 125, 125>>))  \* "name": "{{organization}}"
         >>)),
       P(<<117, 114, 108>>, Str(<<123, 123, 119, 101, 98, 115, 105, 116, 101, 125, 125>>)),  \* "url": "{{website}}"
       P(<<115, 97, 109, 101, 65, 115>>, Str(<<123, 123, 115, 111, 99, 105, 97, 108, 80, 114, 111, 102, 105, 108, 101, 115, 125, 125>>))  \* "sameAs": "{{socialProfiles}}"
     >>),
   BreadcrumbList |->
     Json(<<
       P(<<64, 99, 111, 110, 116, 101, 120, 116>>, Str(<<104, 116, 116, 112, 115, 58, 47, 47, 115, 99, 104, 101, 109, 97, 46, 111, 114, 103>>)),  \* "@context": "https://schema.org"
       P(<<64, 116, 121, 112, 101>>, Str(<<66, 114, 101, 97, 100, 99, 114, 117, 109, 98, 76, 105, 115, 116>>)),  \* "@type": "BreadcrumbList"
       P(<<105, 116, 101, 109, 76, 105, 115, 116, 69, 108, 101, 109, 101, 110, 116>>, Str(<<123, 123, 98, 114, 101, 97, 100, 99, 114, 117, 109, 98, 73, 116, 101, 109, 115, 125, 125>>))  \* "itemListElement": "{{breadcrumbItems}}"
     >>)]

\* The names of getTemplate's table, in the order of the literal
TemplateNames ==
  <<"Article", "NewsArticle", "BlogPosting", "Product", "LocalBusiness", "Recipe", "Event", "FAQPage",
    "HowTo", "Review", "JobPosting", "Course", "Organization", "Person", "BreadcrumbList">>

\* A schema name as the text the code compares and copies
unitsOf(name) ==
  CASE name = "Article" -> <<65, 114, 116, 105, 99, 108, 101>>
    [] name = "NewsArticle" -> <<78, 101, 119, 115, 65, 114, 116, 105, 99, 108, 101>>
    [] name = "BlogPosting" -> <<66, 108, 111, 103, 80, 111, 115, 116, 105, 110, 103>>
    [] name = "Product" -> <<80, 114, 111, 100, 117, 99, 116>>
    [] name = "LocalBusiness" -> <<76, 111, 99, 97, 108, 66, 117, 115, 105, 110, 101, 115, 115>>
    [] name = "Recipe" -> <<82, 101, 99, 105, 112, 101>>
    [] name = "Event" -> <<69, 118, 101, 110, 116>>
    [] name = "FAQPage" -> <<70, 65, 81, 80, 97, 103, 101>>
    [] name = "HowTo" -> <<72, 111, 119, 84, 111>>
    [] name = "Review" -> <<82, 101, 118, 105, 101, 119>>
    [] name = "JobPosting" -> <<74, 111, 98, 80, 111, 115, 116, 105, 110, 103>>
    [] name = "Course" -> <<67, 111, 117, 114, 115, 101>>
    [] name = "Organization" -> <<79, 114, 103, 97, 110, 105, 122, 97, 116, 105, 111, 110>>
    [] name = "Person" -> <<80, 101, 114, 115, 111, 110>>
    [] name = "BreadcrumbList" -> <<66, 114, 101, 97, 100, 99, 114, 117, 109, 98, 76, 105, 115, 116>>
    [] name = "FAQ" -> <<70, 65, 81>>
    [] name = "WebPage" -> <<87, 101, 98, 80, 97, 103, 101>>
    [] name = "constructor" -> <<99, 111, 110, 115, 116, 114, 117, 99, 116, 111, 114>>
    [] name = "__proto__" -> <<95, 95, 112, 114, 111, 116, 111, 95, 95>>

---------------------------------------------------------------------------
(* SchemaTemplates: filling a template *)

\* The replacements of fillTemplate on the text of one string token: for
\* every extracted property in turn, each '{{key}}' becomes value || ''
RECURSIVE fillText(_, _, _)
fillText(text, extracted, k) ==
  IF k > Len(extracted) THEN text
  ELSE fillText(replaceAll(text, placeholder(extracted[k].key),
                           StringOf(Or(extracted[k].value, Str(<<>>))), 1),
                extracted, k + 1)

\* JSON.parse of the replaced JSON.stringify text, value by value: the
\* replacements act inside the string tokens of the text (a match of '{{key}}'
\* holds no quote), and the names of the properties hold no '{{'
RECURSIVE fillValue(_, _)
fillValue(value, extracted) ==
  CASE value.js = "string" ->
         LET token == unquote(fillText(quote(value.v, 1), extracted, 1), 1)
         IN  IF token.ok THEN Return(Str(token.val)) ELSE token
    [] value.js = "array" ->
         LET items == [k \in 1..Len(value.v) |-> fillValue(value.v[k], extracted)]
         IN  IF \A k \in 1..Len(items) : items[k].ok
               THEN Return(Arr([k \in 1..Len(items) |-> items[k].val]))
               ELSE Raise("SyntaxError")
    [] value.js = "json" ->
         LET items == [k \in 1..Len(value.entries) |->
                         fillValue(value.entries[k].value, extracted)]
         IN  IF \A k \in 1..Len(items) : items[k].ok
               THEN Return(Json([k \in 1..Len(items) |->
                                   P(value.entries[k].key, items[k].val)]))
               ELSE Raise("SyntaxError")

\* cleanSchema(schema)
RECURSIVE cleanSchema(_)
cleanSchema(schema) ==
  LET considered(e) ==
        /\ ~IsNullish(e.value)
        /\ e.value # Str(<<>>)
        /\ e.value # Str(placeholder(e.key))
      keptItem(item) ==
        /\ ~IsNullish(item)
        /\ item # Str(<<>>)
        /\ (item.js # "string" \/ ~includes(item.v, <<123, 123>>))
      cleaned(e) ==
        CASE e.value.js = "json" -> P(e.key, cleanSchema(e.value))
          [] e.value.js = "array" -> P(e.key, Arr(SelectSeq(e.value.v, keptItem)))
          [] OTHER -> e
      kept(e) ==
        CASE e.value.js = "json" -> Len(e.value.entries) > 0
          [] e.value.js = "array" -> Len(e.value.v) > 0
          [] OTHER -> TRUE
      entries == SelectSeq(schema.entries, considered)
  IN  Json(SelectSeq([k \in 1..Len(entries) |-> cleaned(entries[k])], kept))

\* object[name] of a JSON-LD object: undefined when it has no such property
get(object, name) ==
  LET at == {k \in 1..Len(object.entries) : object.entries[k].key = name}
  IN  IF at = {} THEN Undefined ELSE object.entries[CHOOSE k \in at : TRUE].value

\* The end of fillTemplate: JSON.parse of the replaced text, then cleanSchema
parsedSchema(filled) ==
  IF filled.ok THEN Return(cleanSchema(filled.val)) ELSE filled

\* fillTemplate after extractDataFromPage has returned or thrown
filledWith(template, extracted) ==
  IF ~extracted.ok THEN extracted
  ELSE IF template.js # "json" THEN Throw
  ELSE parsedSchema(fillValue(template, extracted.val))

\* fillTemplate(template, pageData, $).  JSON.stringify of a function is
\* undefined and a function has no '@type': extractDataFromPage runs, and the
\* first replace on undefined throws.
fillTemplate(template, pageData, handle, today) ==
  filledWith(template,
             extractDataFromPage(pageData, handle,
                                 IF template.js = "json" THEN get(template, <<64, 116, 121, 112, 101>>)  \* @type
                                 ELSE Undefined,
                                 today))

\* getTemplate(schemaType): templates[schemaType] || null.  A name that the
\* literal inherits from Object.prototype finds the inherited member: a
\* function, or for __proto__ the prototype, an object with no property of
\* its own.
getTemplate(schemaType) ==
  IF schemaType \in DOMAIN templates THEN templates[schemaType]
  ELSE IF schemaType = "__proto__" THEN Json(<<>>)
  ELSE IF schemaType \in ObjectPrototypeKeys THEN [js |-> "function"]
  ELSE Null

\* getBasicTemplate(schemaType)
getBasicTemplate(schemaType) ==
  Json(<<P(<<64, 99, 111, 110, 116, 101, 120, 116>>, Str(<<104, 116, 116, 112, 115, 58, 47, 47, 115, 99, 104, 101, 109, 97, 46, 111, 114, 103>>)),  \* @context, 'https://schema.org'
         P(<<64, 116, 121, 112, 101>>, Str(unitsOf(schemaType))),  \* @type
         P(<<110, 97, 109, 101>>, Str(<<12506, 12540, 12472, 12479, 12452, 12488, 12523, 12434, 20837, 21147, 12375, 12390, 12367, 12384, 12373, 12356>>)),  \* name, 'ページタイトルを入力してください'
         P(<<100, 101, 115, 99, 114, 105, 112, 116, 105, 111, 110>>, Str(<<12506, 12540, 12472, 12398, 35500, 26126, 12434, 20837, 21147, 12375, 12390, 12367, 12384, 12373, 12356>>))>>)  \* description, 'ページの説明を入力してください'

\* The result of generateSchema: what the try block returns, or what the
\* catch block returns for what was thrown
schemaResult(schemaType, filled) ==
  IF filled.ok
    THEN [success |-> TRUE, schema |-> filled.val]
    ELSE [success |-> FALSE, error |-> filled.error,
          schema |-> getBasicTemplate(schemaType)]

\* The try block of generateSchema for the template that getTemplate found
filledTemplate(template, pageData, handle, today) ==
  IF template = Null THEN Raise("Unknown schema type")
  ELSE fillTemplate(template, pageData, handle, today)

\* generateSchema(schemaType, pageData, $): success and schema of the result
\* (error is the kind of what was caught; the guide and the lists of required
\* and optional data are read from fixed tables)
generateSchema(schemaType, pageData, handle, today) ==
  schemaResult(schemaType,
               filledTemplate(getTemplate(schemaType), pageData, handle, today))

---------------------------------------------------------------------------
(* The full-width length of a text (SEOChecker and DetailedAnalyzer) *)

\* The test of SEOChecker.calculateFullWidthLength on charAt(i).charCodeAt(0),
\* the UTF-16 code unit at i, so no code reaches the ranges from 0x20000 on
countsAsFullWidth(code) ==
  \/ (code >= 12352 /\ code <= 12447)
  \/ (code >= 12448 /\ code <= 12543)
  \/ (code >= 19968 /\ code <= 40879)
  \/ (code >= 65280 /\ code <= 65519)
  \/ code = 12288
  \/ (code >= 13312 /\ code <= 19903)
  \/ (code >= 131072 /\ code <= 173791)
  \/ (code >= 173824 /\ code <= 177983)
  \/ (code >= 177984 /\ code <= 178207)
  \/ (code >= 178208 /\ code <= 183983)
  \/ (code >= 63744 /\ code <= 64255)
  \/ (code >= 194560 /\ code <= 195103)

\* the code units from i on for which the loop adds 1
fullWidthFrom(units, i) ==
  Cardinality({k \in i..Len(units) : countsAsFullWidth(units[k])})

\* SEOChecker.calculateFullWidthLength(text), doubled, as what the loop adds
\* from i on: 1 for each code unit the test accepts and 0.5 for each other
calculateFullWidthLength(text, i) ==
  IF Falsy(text) THEN 0
  ELSE IF i > Len(text.v) THEN 0
  ELSE 2 * fullWidthFrom(text.v, i)
       + ((Len(text.v) - i + 1) - fullWidthFrom(text.v, i))

\* DetailedAnalyzer.calculateFullWidthLength with the ideographic space left
\* out of the full-width characters
RECURSIVE detailedFullWidthLength_NoSpace(_, _)
detailedFullWidthLength_NoSpace(text, i) ==
  IF Falsy(text) THEN 0
  ELSE IF i > Len(text.v) THEN 0
  ELSE LET code == text.v[i]
       IN  (IF \/ (code >= 12352 /\ code <= 12447)
               \/ (code >= 12448 /\ code <= 12543)
               \/ (code >= 19968 /\ code <= 40879)
               \/ (code >= 65280 /\ code <= 65519)
               \/ (code >= 13312 /\ code <= 19903)
               \/ (code >= 63744 /\ code <= 64255)
             THEN 2 ELSE 1)
           + detailedFullWidthLength_NoSpace(text, i + 1)

\* DetailedAnalyzer.calculateFullWidthLength(text), doubled
RECURSIVE detailedFullWidthLength(_, _)
detailedFullWidthLength(text, i) ==
  IF Falsy(text) THEN 0
  ELSE IF i > Len(text.v) THEN 0
  ELSE LET code == text.v[i]
       IN  (IF \/ (code >= 12352 /\ code <= 12447)
               \/ (code >= 12448 /\ code <= 12543)
               \/ (code >= 19968 /\ code <= 40879)
               \/ (code >= 65280 /\ code <= 65519)
               \/ code = 12288
               \/ (code >= 13312 /\ code <= 19903)
               \/ (code >= 131072 /\ code <= 173791)
               \/ (code >= 173824 /\ code <= 177983)
               \/ (code >= 177984 /\ code <= 178207)
               \/ (code >= 178208 /\ code <= 183983)
               \/ (code >= 63744 /\ code <= 64255)
               \/ (code >= 194560 /\ code <= 195103)
             THEN 2 ELSE 1)
           + detailedFullWidthLength(text, i + 1)

---------------------------------------------------------------------------
(* The structured data of a page: the JSON-LD blocks, the classification   *)
(* and the recommendations.  A document of these calls also has the field  *)
(* scripts: for every script[type="application/ld+json"] of the head, what *)
(* JSON.parse makes of its text, Return(data) or Raise("SyntaxError").     *)

\* The jsonLd list of SEOChecker.checkStructuredData: the parsed data of the
\* blocks that parse, pushed as they are
checkedJsonLd(scripts) ==
  LET parses(block) == block.ok
      parsed == SelectSeq(scripts, parses)
  IN  [k \in 1..Len(parsed) |-> parsed[k].val]

\* The jsonLd list of DetailedAnalyzer.analyzeStructuredData: one entry
\* {data, position, isValid} for every block, data null for one that does
\* not parse
analyzedJsonLd(scripts) ==
  [k \in 1..Len(scripts) |->
     IF scripts[k].ok
       THEN [js |-> "object", data |-> scripts[k].val, isValid |-> TRUE]
       ELSE [js |-> "object", data |-> Null, isValid |-> FALSE]]

\* existingSchemas: the document of the model has no itemtype and no typeof
\* attribute
existingSchemasOf(jsonLd) ==
  [js |-> "object", jsonLd |-> Arr(jsonLd), microdata |-> <<>>, rdfa |-> <<>>]

\* What both checks do with the classification and the existingSchemas they
\* built: pageTypeAnalysis and structuredDataRecommendations of the result,
\* with the arguments the recommender was given
structuredDataOf(pageTypeAnalysis, existingSchemas, pageData) ==
  [pageTypeAnalysis |-> pageTypeAnalysis,
   existingSchemas |-> existingSchemas,
   pageData |-> pageData,
   structuredDataRecommendations |->
     generateRecommendations(pageTypeAnalysis.val, existingSchemas, pageData)]

\* SEOChecker.checkStructuredData($, url, pageData)
checkStructuredData(handle, urlArg, pageData) ==
  structuredDataOf(analyzePage(handle, urlArg),
                   existingSchemasOf(checkedJsonLd(handle.scripts)), pageData)

\* DetailedAnalyzer.analyzeStructuredData($, url, pageData)
analyzeStructuredData(handle, urlArg, pageData) ==
  structuredDataOf(analyzePage(handle, urlArg),
                   existingSchemasOf(analyzedJsonLd(handle.scripts)), pageData)

---------------------------------------------------------------------------
(* The scores of SEOChecker.checkSEO                                       *)
(*                                                                         *)
(* The page is held as what the selectors of the checks read from it: the  *)
(* text of title, the content of the description meta, the headings in     *)
(* document order, the alt of every img, the a[href] elements, the JSON-LD *)
(* scripts, the itemtype and typeof attributes, the viewport and robots    *)
(* metas.  The url is held with what new URL(url) yields for it.           *)

\* this.config (loadConfig): the lengths are doubled like the widths
titleMinLength2 == 30
titleMaxLength2 == 60
descriptionMinLength2 == 120
descriptionMaxLength2 == 160
h2MinCount == 2
h3MinCount == 3
internalLinksMin == 10

\* Math.round of the quotient num / den of two integers, den > 0: the nearest
\* integer, the half going up
MathRound(num, den) == (2 * num + den) \div (2 * den)

\* The character class of garbledPattern, negated: the code units the pattern
\* leaves in a text.  Without the u flag the escape of U+20000 reads as
\* U+2000 followed by 0, and so on, so the class holds 0x0000-0x2FA1 whole.
keptByGarbledPattern(code) ==
  \/ (code >= 0 /\ code <= 12193)
  \/ (code >= 12288 /\ code <= 12351)
  \/ (code >= 12352 /\ code <= 12543)
  \/ (code >= 13312 /\ code <= 19903)
  \/ (code >= 19968 /\ code <= 40879)
  \/ (code >= 63744 /\ code <= 64255)
  \/ code = 65279

\* text.replace(garbledPattern, '') (the texts of the model do not hold the
\* one garbled title and the one garbled description the code replaces whole)
removeGarbled(text) == SelectSeq(text, keptByGarbledPattern)

\* calculateTitleScore(title, length), length doubled
calculateTitleScore(title, length2) ==
  IF Falsy(title) THEN 0
  ELSE IF length2 < titleMinLength2 \/ length2 > titleMaxLength2 THEN 50
  ELSE 100

\* calculateDescriptionScore(description, length), length doubled
calculateDescriptionScore(description, length2) ==
  IF Falsy(description) THEN 0
  ELSE IF length2 < descriptionMinLength2 \/ length2 > descriptionMaxLength2
    THEN 50
  ELSE 100

scoredTitle(title) ==
  [current |-> title,
   score |-> calculateTitleScore(title, calculateFullWidthLength(title, 1))]

\* checkTitleTag($): the score of the trimmed, repaired title
checkTitleTag(page) == scoredTitle(Str(removeGarbled(trim(page.title))))

scoredDescription(description) ==
  [current |-> description,
   score |-> calculateDescriptionScore(
               description, calculateFullWidthLength(description, 1))]

\* checkMetaDescription($): attr('content') || ''
checkMetaDescription(page) ==
  scoredDescription(
    Str(removeGarbled(IF Falsy(page.description) THEN <<>>
                      ELSE page.description.v)))

\* checkHeadingHierarchy($).issues.length: the steps that skip a level
checkHeadingHierarchy(headings) ==
  Cardinality({i \in 2..Len(headings) :
                 headings[i].level > headings[i - 1].level + 1})

\* the issues checkHeadingContent pushes for the heading at i
headingContentIssues(headings, i) ==
  (IF headings[i].text = <<>> THEN 1 ELSE 0)
  + (IF Len(headings[i].text) > 100 THEN 1 ELSE 0)
  + (IF \E j, k \in 1..Len(headings) :
          /\ j < k
          /\ headings[j].level = headings[i].level
          /\ headings[k].level = headings[i].level
          /\ headings[j].text = headings[k].text
       THEN 1 ELSE 0)

\* checkHeadingContent($).issues.length > 0, over h1, h2 and h3
checkHeadingContent(headings) ==
  \E i \in 1..Len(headings) :
    headings[i].level <= 3 /\ headingContentIssues(headings, i) > 0

countLevel(headings, level) ==
  Cardinality({i \in 1..Len(headings) : headings[i].level = level})

\* calculateHeadingScore(h1Count, h2Count, h3Count, hierarchy, content)
calculateHeadingScore(h1Count, h2Count, h3Count, hierarchyIssues, contentIssues) ==
  Min((IF h1Count = 1 THEN 30 ELSE 0)
      + (IF h2Count >= h2MinCount THEN 25 ELSE 0)
      + (IF h3Count >= h3MinCount THEN 20 ELSE 0)
      + (IF hierarchyIssues = 0 THEN 15 ELSE 0)
      + (IF ~contentIssues THEN 10 ELSE 0), 100)

\* checkHeadingStructure($)
checkHeadingStructure(page) ==
  [score |-> calculateHeadingScore(
               countLevel(page.headings, 1), countLevel(page.headings, 2),
               countLevel(page.headings, 3),
               checkHeadingHierarchy(page.headings),
               checkHeadingContent(page.headings))]

\* calculateImageAltScore(totalImages, imagesWithAlt)
calculateImageAltScore(totalImages, imagesWithAlt) ==
  IF totalImages = 0 THEN 50
  ELSE MathRound(imagesWithAlt * 100, totalImages)

\* images.filter((i, el) => !$(el).attr('alt')).length: attr yields undefined
\* for an img with no alt and '' for alt=""
imagesWithoutAltOf(images) ==
  Cardinality({i \in 1..Len(images) : Falsy(images[i])})

\* images.filter((i, el) => $(el).attr('alt') === '').length
imagesWithEmptyAltOf(images) ==
  Cardinality({i \in 1..Len(images) : images[i] = Str(<<>>)})

imageAltResult(totalImages, imagesWithoutAlt, imagesWithEmptyAlt, imagesWithAlt) ==
  [totalImages |-> totalImages,
   imagesWithAlt |-> imagesWithAlt,
   imagesWithoutAlt |-> imagesWithoutAlt,
   imagesWithEmptyAlt |-> imagesWithEmptyAlt,
   score |-> calculateImageAltScore(totalImages, imagesWithAlt)]

\* checkImageAltAttributes($)
checkImageAltAttributes(page) ==
  imageAltResult(
    Len(page.images), imagesWithoutAltOf(page.images),
    imagesWithEmptyAltOf(page.images),
    Len(page.images) - imagesWithoutAltOf(page.images)
      - imagesWithEmptyAltOf(page.images))

\* href.startsWith('/') || href.includes(baseDomain)
isInternalLink(href, baseDomain) ==
  StartsAt(href, <<47>>, 1) \/ includes(href, baseDomain)

\* else if (href.startsWith('http'))
isExternalLink(href, baseDomain) ==
  /\ ~isInternalLink(href, baseDomain)
  /\ StartsAt(href, <<104, 116, 116, 112>>, 1)

\* calculateLinkScore(totalLinks, internalLinks, externalLinks)
calculateLinkScore(totalLinks, internalLinks, externalLinks) ==
  IF totalLinks = 0 THEN 0
  ELSE Min((IF internalLinks >= internalLinksMin THEN 50 ELSE 0)
           + (IF externalLinks > 0 THEN 30 ELSE 0)
           + (IF totalLinks >= 10 THEN 20 ELSE 0), 100)

linkResult(links, baseDomain) ==
  [score |-> calculateLinkScore(
               Len(links),
               Cardinality({i \in 1..Len(links) :
                              isInternalLink(links[i].href, baseDomain)}),
               Cardinality({i \in 1..Len(links) :
                              isExternalLink(links[i].href, baseDomain)}))]

\* checkInternalLinkStructure($, baseUrl): no url gives the fixed score 50 and
\* new URL(baseUrl) throws on a url that does not parse
checkInternalLinkStructure(page) ==
  IF page.url.href = <<>> THEN Return([score |-> 50])
  ELSE IF ~page.url.parsed.ok THEN Raise("TypeError")
  ELSE Return(linkResult(page.links, page.url.parsed.val.hostname))

\* validateSchema(schema, index).issues.length
validateSchema(schema) ==
  IF ~Has(schema, "type") THEN 1
  ELSE IF schema.type = Str("Organization")
    THEN (IF Has(schema, "name") THEN 0 ELSE 1)
         + (IF Has(schema, "url") THEN 0 ELSE 1)
  ELSE IF schema.type = Str("WebSite")
    THEN (IF Has(schema, "name") THEN 0 ELSE 1)
         + (IF Has(schema, "url") THEN 0 ELSE 1)
         + (IF Has(schema, "potentialAction") THEN 0 ELSE 1)
  ELSE IF schema.type = Str("Product")
    THEN (IF Has(schema, "name") THEN 0 ELSE 1)
         + (IF Has(schema, "description") THEN 0 ELSE 1)
         + (IF Has(schema, "offers") THEN 0 ELSE 1)
  ELSE IF schema.type = Str("BreadcrumbList")
    THEN (IF Has(schema, "itemListElement") THEN 0 ELSE 1)
  ELSE 0

requiredSchemas == {"Organization", "WebSite", "Product", "BreadcrumbList"}

\* checkJsonLdDetails(jsonLdArray).issues.length === 0
checkJsonLdDetails(jsonLd) ==
  \/ Len(jsonLd) = 0
  \/ /\ \A required \in requiredSchemas :
          \E k \in 1..Len(jsonLd) :
            Has(jsonLd[k], "type") /\ jsonLd[k].type = Str(required)
     /\ \A k \in 1..Len(jsonLd) : validateSchema(jsonLd[k]) = 0

\* calculateStructuredDataScore(jsonLd, microdata, rdfa, details)
calculateStructuredDataScore(jsonLd, microdata, rdfa, noIssues) ==
  Min((IF Len(jsonLd) > 0 THEN 40 ELSE 0)
      + (IF Len(microdata) > 0 THEN 30 ELSE 0)
      + (IF Len(rdfa) > 0 THEN 30 ELSE 0)
      + (IF noIssues THEN 20 ELSE 0), 100)

structuredDataScore(jsonLd, microdata, rdfa) ==
  [score |-> calculateStructuredDataScore(jsonLd, microdata, rdfa,
                                          checkJsonLdDetails(jsonLd))]

\* checkStructuredData($, url, pageData).score
scoreStructuredData(page) ==
  structuredDataScore(checkedJsonLd(page.scripts), page.microdata, page.rdfa)

\* checkUrlStructure(url).issues.length
checkUrlStructure(urlArg) ==
  IF urlArg.href = <<>> THEN 0
  ELSE IF ~urlArg.parsed.ok THEN 1
  ELSE (IF urlArg.parsed.val.protocol # "https:" THEN 1 ELSE 0)
       + (IF Len(urlArg.href) > 255 THEN 1 ELSE 0)
       + (IF urlArg.parsed.val.searchParams > 5 THEN 1 ELSE 0)
       + (IF urlArg.parsed.val.pathSegments > 5 THEN 1 ELSE 0)

WidthDeviceWidth ==
  <<119, 105, 100, 116, 104, 61, 100, 101, 118, 105, 99, 101, 45, 119, 105,
    100, 116, 104>>  \* width=device-width
InitialScale1 ==
  <<105, 110, 105, 116, 105, 97, 108, 45, 115, 99, 97, 108, 101, 61, 49>>
  \* initial-scale=1
NoIndex == <<110, 111, 105, 110, 100, 101, 120>>  \* noindex

\* a, button, input, select, textarea whose css width or height is under 44:
\* of these the model's pages hold only the links
smallTouchTargets(links) ==
  Cardinality({i \in 1..Len(links) :
                 links[i].width < 44 \/ links[i].height < 44})

\* checkMobileOptimization($).issues.length
checkMobileOptimization(page) ==
  (IF Falsy(page.viewport) THEN 1
   ELSE (IF includes(page.viewport.v, WidthDeviceWidth) THEN 0 ELSE 1)
        + (IF includes(page.viewport.v, InitialScale1) THEN 0 ELSE 1))
  + (IF smallTouchTargets(page.links) > 0 THEN 1 ELSE 0)

\* checkNoindex($).issues.length
checkNoindex(page) ==
  IF ~Falsy(page.robots) /\ includes(page.robots.v, NoIndex) THEN 1 ELSE 0

\* calculateOtherSEOScore(urlIssues, mobileIssues, noindexIssues,
\* securityIssues): checkSecurityHeaders pushes no issue
calculateOtherSEOScore(urlIssues, mobileIssues, noindexIssues, securityIssues) ==
  LET score == 100 - urlIssues * 10 - mobileIssues * 15 - noindexIssues * 20
                   - securityIssues * 5
  IN  IF score > 0 THEN score ELSE 0

\* checkOtherSEOElements($, url)
checkOtherSEOElements(page) ==
  [score |-> calculateOtherSEOScore(
               checkUrlStructure(page.url), checkMobileOptimization(page),
               checkNoindex(page), 0)]

\* the weights of calculateOverallScore, in hundredths
overallWeights ==
  [titleTag |-> 15, metaDescription |-> 15, headingStructure |-> 20,
   imageAltAttributes |-> 10, internalLinkStructure |-> 15,
   structuredData |-> 15, otherSEOElements |-> 10]

\* totalScore of calculateOverallScore, in hundredths
totalScore100(checks) ==
  checks.titleTag.score * overallWeights.titleTag
  + checks.metaDescription.score * overallWeights.metaDescription
  + checks.headingStructure.score * overallWeights.headingStructure
  + checks.imageAltAttributes.score * overallWeights.imageAltAttributes
  + checks.internalLinkStructure.score * overallWeights.internalLinkStructure
  + checks.structuredData.score * overallWeights.structuredData
  + checks.otherSEOElements.score * overallWeights.otherSEOElements

\* Math.round(totalScore) of a sum of products with binary fractions: the
\* nearest integer, and either neighbour when the exact sum is a half (the
\* rounding errors of the products decide which)
roundedTotal(total100) ==
  IF total100 % 100 = 50
    THEN {total100 \div 100, total100 \div 100 + 1}
    ELSE {(total100 + 50) \div 100}

\* calculateOverallScore(checks): the values the rounding can give
calculateOverallScore(checks) == roundedTotal(totalScore100(checks))

checksOf(page, linkStructure) ==
  [titleTag |-> checkTitleTag(page),
   metaDescription |-> checkMetaDescription(page),
   headingStructure |-> checkHeadingStructure(page),
   imageAltAttributes |-> checkImageAltAttributes(page),
   internalLinkStructure |-> linkStructure,
   structuredData |-> scoreStructuredData(page),
   otherSEOElements |-> checkOtherSEOElements(page)]

seoResults(checks, overallScore) ==
  Return([checks |-> checks, overallScore |-> overallScore])

\* checkSEO(url, html): the outcomes of the call, one for each value the
\* rounding of the overall score can give; an exception of a check is rethrown
checkSEO(page) ==
  IF ~checkInternalLinkStructure(page).ok THEN {Raise("TypeError")}
  ELSE {seoResults(checksOf(page, checkInternalLinkStructure(page).val), overall) :
          overall \in calculateOverallScore(
                        checksOf(page, checkInternalLinkStructure(page).val))}

---------------------------------------------------------------------------
(* SEOChecker.fetchHTMLWithPuppeteer, await by await                       *)
(*                                                                         *)
(* fetch.at is the await the call stands before; browser and page are the  *)
(* two locals ("null" until assigned) with the state of the object each    *)
(* holds; thrown tells that an exception is on its way to the caller;      *)
(* closeCalled tells that browser.close() has been called.                 *)

\* let browser = null; let page = null;
fetchStart ==
  [at |-> "launch", browser |-> "null", page |-> "null", thrown |-> FALSE,
   closeCalled |-> FALSE, html |-> Undefined]

\* an await of the try block resolves
resolved(f, await) == [f EXCEPT !.at = await]

\* an await of the try block rejects: catch logs and rethrows, finally runs
rejected(f) == [f EXCEPT !.at = "finally", !.thrown = TRUE]

\* the awaits on the page between newPage and content, in their order
afterAwait ==
  [setCacheEnabled |-> "setJavaScriptEnabled",
   setJavaScriptEnabled |-> "setUserAgent",
   setUserAgent |-> "goto",
   goto |-> "setTimeout"]

\* the three waits of waitForDynamicContent, in their order
afterWait ==
  [waitDescription |-> "waitTitle", waitTitle |-> "waitHeadings",
   waitHeadings |-> "content"]

\* finally: if (page) await page.close() has resolved or was skipped
pageClosed(f) ==
  [f EXCEPT !.at = "closeBrowser",
            !.page = IF f.page = "null" THEN "null" ELSE "closed"]

\* await page.close() rejects: the exception leaves the finally block
pageCloseRejected(f) == [f EXCEPT !.at = "completed", !.thrown = TRUE]

\* if (browser) await browser.close() has resolved or was skipped
browserClosed(f) ==
  [f EXCEPT !.at = "completed",
            !.browser = IF f.browser = "null" THEN "null" ELSE "closed",
            !.closeCalled = f.browser # "null"]

\* await browser.close() rejects
browserCloseRejected(f) ==
  [f EXCEPT !.at = "completed", !.thrown = TRUE, !.closeCalled = TRUE]

---------------------------------------------------------------------------
(* The arguments of analyzePage *)

Node(tag, class, id, attrs, text) ==
  [tag |-> tag, class |-> class, id |-> id, attrs |-> attrs, text |-> text]

\* The title elements: none, and three texts
TitleInputs ==
  {Undefined,
   Str(<<40335, 32905, 12398, 29038, 36796, 12415, 12524, 12471, 12500>>),  \* 鶏肉の煮込みレシピ
   Str(<<32, 70, 65, 81, 32>>),  \* ' FAQ '
   Str(<<12524, 12499, 12517, 12540, 32, 12524, 12499, 12517, 12540>>)}  \* レビュー レビュー

\* The meta descriptions: none, and one text
MetaInputs ==
  {Undefined,
   Str(<<21830, 21697, 12398, 20385, 26684, 12392, 35413, 20385>>)}  \* 商品の価格と評価

\* A body with no node
EmptyBody ==
  <<>>

\* A recipe
\*   <p>材料: 鶏肉300g
\*   \n  
\*   <p>手順1: 鍋に油を入れる
\*   <p>調理時間: 30分
RecipeBody ==
  <<Node("p", <<>>, <<>>, {},
         <<26448, 26009, 58, 32, 40335, 32905, 51, 48, 48, 103>>),
    Node("#text", <<>>, <<>>, {},
         <<10, 32, 32>>),
    Node("p", <<>>, <<>>, {},
         <<25163, 38918, 49, 58, 32, 37707, 12395, 27833, 12434, 20837, 12428, 12427>>),
    Node("p", <<>>, <<>>, {},
         <<35519, 29702, 26178, 38291, 58, 32, 51, 48, 20998>>)>>

\* Questions and answers
\*   <div class="faq-list">Q: 送料は? A: 無料です
\*   <p>Q: 返品は? A: 可能です
FaqBody ==
  <<Node("div", <<102, 97, 113, 45, 108, 105, 115, 116>>, <<>>, {},
         <<81, 58, 32, 36865, 26009, 12399, 63, 32, 65, 58, 32, 28961, 26009, 12391, 12377>>),
    Node("p", <<>>, <<>>, {},
         <<81, 58, 32, 36820, 21697, 12399, 63, 32, 65, 58, 32, 21487, 33021, 12391, 12377>>)>>

\* A product with a price and stars
\*   <span class="item-price">￥1,200
\*   <p>★★★ 価格 価格
ProductBody ==
  <<Node("span", <<105, 116, 101, 109, 45, 112, 114, 105, 99, 101>>, <<>>, {},
         <<65509, 49, 44, 50, 48, 48>>),
    Node("p", <<>>, <<>>, {},
         <<9733, 9733, 9733, 32, 20385, 26684, 32, 20385, 26684>>)>>

\* An event
\*   <h1> イベント情報 
\*   <time datetime>10月1日
\*   <p>会場 東京
EventBody ==
  <<Node("h1", <<>>, <<>>, {},
         <<32, 12452, 12505, 12531, 12488, 24773, 22577, 32>>),
    Node("time", <<>>, <<>>, {"datetime"},
         <<49, 48, 26376, 49, 26085>>),
    Node("p", <<>>, <<>>, {},
         <<20250, 22580, 32, 26481, 20140>>)>>

\* A job offer and a course
\*   <h2>募集要項
\*   <div class="lesson cost">カリキュラム
JobCourseBody ==
  <<Node("h2", <<>>, <<>>, {},
         <<21215, 38598, 35201, 38917>>),
    Node("div", <<108, 101, 115, 115, 111, 110, 32, 99, 111, 115, 116>>, <<>>, {},
         <<12459, 12522, 12461, 12517, 12521, 12512>>)>>

\* A text no signature matches
\*   <p>こんにちは
PlainBody ==
  <<Node("p", <<>>, <<>>, {},
         <<12371, 12435, 12395, 12385, 12399>>)>>

\* Two questions, each followed by the element of its answer
\*   <dt>Q: 送料は?
\*   <dd>A: 無料です
\*   <dt>Q：返品は?
\*   <dd>A: 可能です
FaqListBody ==
  <<Node("dt", <<>>, <<>>, {},
         <<81, 58, 32, 36865, 26009, 12399, 63>>),
    Node("dd", <<>>, <<>>, {},
         <<65, 58, 32, 28961, 26009, 12391, 12377>>),
    Node("dt", <<>>, <<>>, {},
         <<81, 65306, 36820, 21697, 12399, 63>>),
    Node("dd", <<>>, <<>>, {},
         <<65, 58, 32, 21487, 33021, 12391, 12377>>)>>

\* A question followed by the element of its answer, the answer on a line of its own
\*   <dt>Q: 営業日は?
\*   \n  
\*   <dd>\n  A: 平日です\n
FaqIndentedBody ==
  <<Node("dt", <<>>, <<>>, {},
         <<81, 58, 32, 21942, 26989, 26085, 12399, 63>>),
    Node("#text", <<>>, <<>>, {},
         <<10, 32, 32>>),
    Node("dd", <<>>, <<>>, {},
         <<10, 32, 32, 65, 58, 32, 24179, 26085, 12391, 12377, 10>>)>>

\* Upper-case content patterns
\*   <p>STEP 1 まず TEL
UpperCaseBody ==
  <<Node("p", <<>>, <<>>, {},
         <<83, 84, 69, 80, 32, 49, 32, 12414, 12378, 32, 84, 69, 76>>)>>

\* Stars with no price
\*   <div class="star-rating">口コミ 5件
ReviewBody ==
  <<Node("div", <<115, 116, 97, 114, 45, 114, 97, 116, 105, 110, 103>>, <<>>, {},
         <<21475, 12467, 12511, 32, 53, 20214>>)>>

\* A price with no review
\*   <p>1,000円
PriceBody ==
  <<Node("p", <<>>, <<>>, {},
         <<49, 44, 48, 48, 48, 20870>>)>>

BodyInputs ==
  {EmptyBody,
   RecipeBody,
   FaqBody,
   FaqListBody,
   FaqIndentedBody,
   ProductBody,
   EventBody,
   JobCourseBody,
   PlainBody,
   UpperCaseBody,
   ReviewBody,
   PriceBody}

\* A document that parsed, and what is no document handle at all
DocumentInputs ==
  {Null, Undefined}
  \cup {[js |-> "function", title |-> t, metaDescription |-> m, body |-> b] :
          t \in TitleInputs, m \in MetaInputs, b \in BodyInputs}

\* The url: none, three strings, and a number
UrlInputs ==
  {Undefined,
   Str(<<104, 116, 116, 112, 115, 58, 47, 47, 101, 120, 97, 109, 112, 108, 101, 46, 99, 111, 109, 47, 102, 97, 113, 47, 103, 101, 110, 101, 114, 97, 108>>),  \* https://example.com/faq/general
   Str(<<104, 116, 116, 112, 115, 58, 47, 47, 101, 120, 97, 109, 112, 108, 101, 46, 99, 111, 109, 47, 115, 104, 111, 112, 47, 105, 116, 101, 109, 47, 49>>),  \* https://example.com/shop/item/1
   Str(<<104, 116, 116, 112, 115, 58, 47, 47, 101, 120, 97, 109, 112, 108, 101, 46, 99, 111, 109, 47, 115, 104, 111, 112, 47>>),  \* https://example.com/shop/
   [js |-> "number", v |-> 42]}

---------------------------------------------------------------------------
(* The arguments of generateRecommendations *)

\* The longest jsonLd list of an inventory
MaxJsonLd == 2

\* A classification: null, one with no primaryType, one of each page type, of
\* a type with no entry in this.recommendations, of a name that object
\* literals inherit, and of the empty string
ClassificationInputs ==
  {Null, [js |-> "object", confidence |-> 0]}
  \cup {[js |-> "object", primaryType |-> t, confidence |-> 7] :
          t \in RecommendedPageTypes \cup {"WebPage", "constructor", ""}}

\* The parsed content of a JSON-LD block: its '@type' is the field type
JsonLdData ==
  {[js |-> "object", context |-> "https://schema.org"]}
  \cup {[js |-> "object", context |-> "https://schema.org", type |-> Str(t)] :
          t \in {"Article", "Organization", "Review", "WebPage"}}
  \cup {[js |-> "object", context |-> "https://schema.org", type |-> Arr(a)] :
          a \in {<<"WebPage", "Article">>, <<"Organization", "WebPage">>, <<>>}}

\* An entry of existingSchemas.jsonLd as DetailedAnalyzer.analyzeStructuredData
\* builds it (a block that does not parse has data null), or null
JsonLdEntries ==
  {Null, [js |-> "object", data |-> Null, isValid |-> FALSE]}
  \cup {[js |-> "object", data |-> d, isValid |-> TRUE] : d \in JsonLdData}

JsonLdLists == UNION {[1..n -> JsonLdEntries] : n \in 0..MaxJsonLd}

InventoryInputs ==
  {Undefined, Null, EmptyObject,
   [js |-> "object", jsonLd |-> Null],
   [js |-> "object", jsonLd |-> Str("[]")],
   [js |-> "object", jsonLd |-> EmptyObject]}
  \cup {[js |-> "object", jsonLd |-> Arr(l), microdata |-> <<>>, rdfa |-> <<>>] :
          l \in JsonLdLists}

PageDataInputs ==
  {Undefined, Null,
   [js |-> "object",
    title |-> <<39365, 21069, 12459, 12501, 12455>>,  \* 駅前カフェ
    bodyText |-> <<21942, 26989, 26178, 38291, 32, 49, 48, 26178, 12363, 12425>>],  \* 営業時間 10時から
   [js |-> "object",
    title |-> <<65, 66, 67, 32654, 23481, 12469, 12525, 12531>>,  \* ABC美容サロン
    bodyText |-> <<20303, 25152, 32, 26481, 20140, 37117, 32, 23450, 20241, 26085, 32, 26376, 26332>>],  \* 住所 東京都 定休日 月曜
   [js |-> "object",
    title |-> <<20250, 31038, 27010, 35201>>,  \* 会社概要
    bodyText |-> <<31169, 12383, 12385, 12395, 12388, 12356, 12390>>],  \* 私たちについて
   [js |-> "object",
    title |-> <<12507, 12486, 12523, 12398, 12524, 12473, 12488, 12521, 12531>>,  \* ホテルのレストラン
    bodyText |-> <<12450, 12463, 12475, 12473, 32, 39365, 12363, 12425, 53, 20998>>]}  \* アクセス 駅から5分

---------------------------------------------------------------------------
(* The arguments of generateSchema *)

\* The schema names asked for: the fifteen of the catalogue, a page type that
\* is no schema name ('FAQ'), a name of no template, and two names every
\* object literal inherits
SchemaTypeInputs ==
  {TemplateNames[k] : k \in 1..Len(TemplateNames)}
  \cup {"FAQ", "WebPage", "constructor", "__proto__"}

\* pageData as DetailedAnalyzer.analyzeDetails and SEOChecker.checkSEO build
\* it: four texts
callerPageData(handle, urlArg) ==
  [js |-> "object",
   title |-> trim(titleText(handle)),
   metaDescription |-> IF Falsy(handle.metaDescription) THEN <<>>
                       ELSE handle.metaDescription.v,
   bodyText |-> trim(bodyTextOf(handle)),
   url |-> IF Falsy(urlArg) THEN <<>> ELSE urlArg.v]

\* The forms of pageData: the default {} of analyzeStructuredData, the four
\* texts of the callers, and the four texts with the headings that
\* extractKeywords reads
PageDataForms == {"empty", "texts", "headings"}

pageDataOf(form, handle, urlArg) ==
  CASE form = "empty" -> EmptyObject
    [] form = "texts" -> callerPageData(handle, urlArg)
    [] form = "headings" ->
         callerPageData(handle, urlArg)
         @@ [headings |-> headingTexts(handle.body, 1)]

\* The documents of the schema generation: the parsed ones
TemplateDocuments == {d \in DocumentInputs : d.js = "function"}

\* The urls of the schema generation: none, and the strings
TemplateUrls == {u \in UrlInputs : u.js # "number"}

\* new Date().toISOString().split('T')[0]: the day of the call
DateInputs ==
  {<<50, 48, 50, 52, 45, 48, 53, 45, 48, 49>>}  \* '2024-05-01'

---------------------------------------------------------------------------
(* The texts whose full-width length is taken *)

\* The longest text
MaxTextLen == 3

\* The code units of the texts: a, hiragana A, katakana A, the kanji U+6F22,
\* full-width A, the ideographic space, the ideographic full stop, the kanji
\* U+9FB0, and the two surrogates of the emoji U+1F600
TextUnits == {97, 12354, 12450, 28450, 65313, 12288, 12290, 40880, 55357, 56832}

RECURSIVE TextsOfLen(_)
TextsOfLen(n) ==
  IF n = 0 THEN {<<>>}
  ELSE {Append(t, c) : t \in TextsOfLen(n - 1), c \in TextUnits}

\* The title or description text: null, and the strings up to the longest
TextInputs ==
  {Null} \cup {Str(t) : t \in UNION {TextsOfLen(n) : n \in 0..MaxTextLen}}

---------------------------------------------------------------------------
(* The arguments of cleanSchema *)

\* The longest array of a schema to clean
MaxArrayLen == 1

\* The values that are no object and no array: null, '', a text, and an
\* unresolved placeholder
LeafInputs ==
  {Null, Str(<<>>), Str(<<74, 80>>),  \* 'JP'
   Str(<<123, 123, 111, 112, 101, 110, 115, 125, 125>>)}  \* '{{opens}}'

\* The objects whose only field holds such a value, and {}
FlatObjectInputs ==
  {Json(<<>>)} \cup {Json(<<P(<<111, 112, 101, 110, 115>>, v)>>) : v \in LeafInputs}  \* opens

\* The arrays of such values, such objects and []
ArrayInputs ==
  {Arr(s) : s \in UNION {[1..n -> LeafInputs \cup FlatObjectInputs \cup {Arr(<<>>)}] :
                           n \in 0..MaxArrayLen}}

\* The objects with one field that holds a flat object or an array
NestedObjectInputs ==
  {Json(<<P(<<103, 101, 111>>, v)>>) : v \in FlatObjectInputs \cup ArrayInputs}  \* geo

\* What JSON.parse hands to cleanSchema: an object with an '@type' and a
\* second field
SchemaInputs ==
  {Json(<<P(<<64, 116, 121, 112, 101>>, Str(<<84, 104, 105, 110, 103>>)),  \* @type, 'Thing'
          P(<<111, 112, 101, 110, 115>>, v)>>) :  \* opens
     v \in LeafInputs \cup FlatObjectInputs \cup ArrayInputs \cup NestedObjectInputs}

---------------------------------------------------------------------------
(* The pages of the structured data checks *)

\* A JSON-LD block: one that does not parse, and one of each '@type'
ScriptInputs ==
  {Raise("SyntaxError")}
  \cup {Return([js |-> "object", context |-> "https://schema.org", type |-> Str(t)]) :
          t \in {"Article", "Organization", "Product"}}

ScriptLists == UNION {[1..n -> ScriptInputs] : n \in 0..MaxJsonLd}

\* The pages: the parsed documents with no title and no meta description,
\* with their JSON-LD blocks
PageInputs ==
  {[scripts |-> s] @@ d :
     d \in {t \in TemplateDocuments :
             t.title = Undefined /\ t.metaDescription = Undefined},
     s \in ScriptLists}

---------------------------------------------------------------------------
(* The pages whose scores are taken *)

\* The most img elements of a page
MaxImages == 2

\* attr('alt') of an img: no alt, alt="" and alt="a"
AltInputs == {Undefined, Str(<<>>), Str(<<97>>)}

ImageInputs == UNION {[1..n -> AltInputs] : n \in 0..MaxImages}

\* n times the code unit c
Repeated(c, n) == [i \in 1..n |-> c]

Heading(level, text) == [level |-> level, text |-> text]

\* The title, the description and the headings of a page: none; a short title
\* with a full-width bar, a short description, an h1 followed by an h3; texts
\* of the asked lengths and one h1, two h2, three h3; a title of full-width
\* bars only
ContentInputs ==
  {[title |-> <<>>, description |-> Undefined, headings |-> <<>>],
   [title |-> <<32, 12354, 65372, 12354, 32>>,  \* ' あ｜あ '
    description |-> Str(Repeated(12354, 3)),
    headings |-> <<Heading(1, <<97>>), Heading(3, <<>>)>>],
   [title |-> Repeated(12354, 15),
    description |-> Str(Repeated(12354, 60)),
    headings |-> <<Heading(1, <<97>>), Heading(2, <<98>>), Heading(2, <<99>>),
                   Heading(3, <<100>>), Heading(3, <<101>>),
                   Heading(3, <<102>>)>>],
   [title |-> Repeated(65372, 15),
    description |-> Str(Repeated(12354, 90)),
    headings |-> <<Heading(1, <<97>>), Heading(1, <<97>>)>>]}

ExampleCom == <<101, 120, 97, 109, 112, 108, 101, 46, 99, 111, 109>>  \* example.com

\* The url argument with what new URL(url) yields: no url, an https url, an
\* http url six directories deep, and a text that is no url
NoUrl == [href |-> <<>>]
HttpsUrl ==
  [href |-> <<104, 116, 116, 112, 115, 58, 47, 47, 101, 120, 97, 109, 112,
              108, 101, 46, 99, 111, 109, 47>>,  \* https://example.com/
   parsed |-> Return([protocol |-> "https:", hostname |-> ExampleCom,
                      searchParams |-> 0, pathSegments |-> 0])]
HttpUrl ==
  [href |-> <<104, 116, 116, 112, 58, 47, 47, 101, 120, 97, 109, 112, 108,
              101, 46, 99, 111, 109, 47, 97, 47, 98, 47, 99, 47, 100, 47,
              101, 47, 102>>,  \* http://example.com/a/b/c/d/e/f
   parsed |-> Return([protocol |-> "http:", hostname |-> ExampleCom,
                      searchParams |-> 0, pathSegments |-> 6])]
BadUrl ==
  [href |-> <<110, 111, 116, 32, 97, 32, 117, 114, 108>>,  \* not a url
   parsed |-> Raise("TypeError")]

\* An a[href] with its css width and height (0 when it has none)
Link(href, width, height) == [href |-> href, width |-> width, height |-> height]

InternalHref == <<47, 97, 98, 111, 117, 116>>  \* /about
ExternalHref ==
  <<104, 116, 116, 112, 115, 58, 47, 47, 111, 116, 104, 101, 114, 46, 101,
    120, 97, 109, 112, 108, 101, 46, 111, 114, 103, 47>>
  \* https://other.example.org/

Schema(fields) == Return([js |-> "object", context |-> "https://schema.org"] @@ fields)

\* The four schemas checkJsonLdDetails asks for, with the fields
\* validateSchema asks of each
CompleteScripts ==
  <<Schema([type |-> Str("Organization"), name |-> Str(<<97>>),
            url |-> Str(<<97>>)]),
    Schema([type |-> Str("WebSite"), name |-> Str(<<97>>), url |-> Str(<<97>>),
            potentialAction |-> EmptyObject]),
    Schema([type |-> Str("Product"), name |-> Str(<<97>>),
            description |-> Str(<<97>>), offers |-> EmptyObject]),
    Schema([type |-> Str("BreadcrumbList"), itemListElement |-> Arr(<<>>)])>>

\* The rest of a page: nothing and no url; an http url, one small link, a
\* block that does not parse and an Organization with no name, a fixed-width
\* viewport and noindex; an https url, ten internal links and an external one,
\* the four schemas, microdata and RDFa, a responsive viewport; a url that
\* does not parse
TechnicalInputs ==
  {[url |-> NoUrl, links |-> <<>>, scripts |-> <<>>, microdata |-> <<>>,
    rdfa |-> <<>>, viewport |-> Undefined, robots |-> Undefined],
   [url |-> HttpUrl, links |-> <<Link(InternalHref, 0, 0)>>,
    scripts |-> <<Raise("SyntaxError"), Schema([type |-> Str("Organization")])>>,
    microdata |-> <<>>, rdfa |-> <<>>,
    viewport |-> Str(<<119, 105, 100, 116, 104, 61, 49, 48, 50, 52>>),
    \* width=1024
    robots |-> Str(<<110, 111, 105, 110, 100, 101, 120, 44, 32, 110, 111,
                     102, 111, 108, 108, 111, 119>>)],  \* noindex, nofollow
   [url |-> HttpsUrl,
    links |-> [i \in 1..11 |-> IF i <= 10 THEN Link(InternalHref, 44, 44)
                                ELSE Link(ExternalHref, 44, 44)],
    scripts |-> CompleteScripts,
    microdata |-> <<"https://schema.org/Product">>,
    rdfa |-> <<"Product">>,
    viewport |-> Str(WidthDeviceWidth \o <<44, 32>> \o InitialScale1),
    \* width=device-width, initial-scale=1
    robots |-> Undefined],
   [url |-> BadUrl, links |-> <<>>, scripts |-> <<>>, microdata |-> <<>>,
    rdfa |-> <<>>, viewport |-> Undefined, robots |-> Undefined]}

SeoPageInputs ==
  {[images |-> images] @@ content @@ technical :
     images \in ImageInputs, content \in ContentInputs,
     technical \in TechnicalInputs}

---------------------------------------------------------------------------
(* The calls *)

Init ==
  /\ pc = "idle"
  /\ doc = NoCall
  /\ url = NoCall
  /\ analysis = NoCall
  /\ recIn = NoCall
  /\ recOut = NoCall
  /\ rerun = NoCall
  /\ schemaIn = NoCall
  /\ schemaOut = NoCall
  /\ widthIn = NoCall
  /\ widthOut = NoCall
  /\ seoIn = NoCall
  /\ seoOut = NoCall
  /\ fetch = NoCall

\* A caller invokes analyzePage
AnalyzePage ==
  /\ pc = "idle"
  /\ \E d \in DocumentInputs, u \in UrlInputs :
       /\ doc' = d
       /\ url' = u
       /\ analysis' = analyzePage(d, u)
  /\ pc' = "analyzed"
  /\ UNCHANGED <<recIn, recOut, rerun, schemaIn, schemaOut, widthIn, widthOut, seoIn, seoOut, fetch>>

\* A caller invokes generateRecommendations
GenerateRecommendations ==
  /\ pc = "idle"
  /\ \E pa \in ClassificationInputs, es \in InventoryInputs, pd \in PageDataInputs :
       /\ recIn' = [pageAnalysis |-> pa, existingSchemas |-> es, pageData |-> pd]
       /\ recOut' = generateRecommendations(pa, es, pd)
  /\ pc' = "recommended"
  /\ UNCHANGED <<doc, url, analysis, rerun, schemaIn, schemaOut, widthIn, widthOut, seoIn, seoOut, fetch>>

\* A caller invokes generateSchema with a document, the page data read from
\* it and a schema name
GenerateSchema ==
  /\ pc = "idle"
  /\ \E name \in SchemaTypeInputs, d \in TemplateDocuments, u \in TemplateUrls,
        form \in PageDataForms, today \in DateInputs :
       /\ doc' = d
       /\ url' = u
       /\ schemaIn' = [schemaType |-> name, pageData |-> pageDataOf(form, d, u),
                       today |-> today]
       /\ schemaOut' = generateSchema(name, pageDataOf(form, d, u), d, today)
  /\ pc' = "generated"
  /\ UNCHANGED <<analysis, recIn, recOut, rerun, widthIn, widthOut, seoIn, seoOut, fetch>>

\* fillTemplate hands the parsed object to cleanSchema
CleanSchema ==
  /\ pc = "idle"
  /\ \E schema \in SchemaInputs :
       /\ schemaIn' = [schema |-> schema]
       /\ schemaOut' = cleanSchema(schema)
  /\ pc' = "cleaned"
  /\ UNCHANGED <<doc, url, analysis, recIn, recOut, rerun, widthIn, widthOut, seoIn, seoOut, fetch>>

\* The page, the classification, the arguments of the recommender and its
\* result, as a check of the structured data leaves them
StructuredData(d, result) ==
  /\ doc' = d
  /\ url' = Str(<<>>)
  /\ analysis' = result.pageTypeAnalysis
  /\ recIn' = [pageAnalysis |-> result.pageTypeAnalysis.val,
               existingSchemas |-> result.existingSchemas,
               pageData |-> result.pageData]
  /\ recOut' = result.structuredDataRecommendations

\* SEOChecker.checkSEO calls checkStructuredData with the page, url || '' and
\* the four texts of the page
CheckStructuredData ==
  /\ pc = "idle"
  /\ \E d \in PageInputs :
       StructuredData(d, checkStructuredData(d, Str(<<>>), callerPageData(d, Str(<<>>))))
  /\ pc' = "checked"
  /\ UNCHANGED <<rerun, schemaIn, schemaOut, widthIn, widthOut, seoIn, seoOut, fetch>>

\* DetailedAnalyzer.analyzeDetails calls analyzeStructuredData with the page,
\* the url and the four texts of the page
AnalyzeStructuredData ==
  /\ pc = "idle"
  /\ \E d \in PageInputs :
       StructuredData(d, analyzeStructuredData(d, Str(<<>>), callerPageData(d, Str(<<>>))))
  /\ pc' = "detailed"
  /\ UNCHANGED <<rerun, schemaIn, schemaOut, widthIn, widthOut, seoIn, seoOut, fetch>>

\* SEOChecker.checkTitleTag and DetailedAnalyzer.analyzeTitleTag take the
\* full-width length of the same text
CalculateFullWidthLength ==
  /\ pc = "idle"
  /\ \E t \in TextInputs :
       /\ widthIn' = t
       /\ widthOut' = [seoChecker |-> calculateFullWidthLength(t, 1),
                       detailedAnalyzer |-> detailedFullWidthLength(t, 1)]
  /\ pc' = "measured"
  /\ UNCHANGED <<doc, url, analysis, recIn, recOut, rerun, schemaIn, schemaOut, seoIn, seoOut, fetch>>

\* The second analyser of the same request (SEOChecker.checkStructuredData
\* after DetailedAnalyzer.analyzeStructuredData) classifies the same document
\* at the same url
AnalyzeAgain ==
  /\ pc = "analyzed"
  /\ rerun = NoCall
  /\ rerun' = analyzePage(doc, url)
  /\ UNCHANGED <<pc, doc, url, analysis, recIn, recOut, schemaIn, schemaOut, widthIn, widthOut, seoIn, seoOut, fetch>>

\* ... and asks for the recommendations with the same arguments
RecommendAgain ==
  /\ pc = "recommended"
  /\ rerun = NoCall
  /\ rerun' = generateRecommendations(recIn.pageAnalysis, recIn.existingSchemas,
                                      recIn.pageData)
  /\ UNCHANGED <<pc, doc, url, analysis, recIn, recOut, schemaIn, schemaOut, widthIn, widthOut, seoIn, seoOut, fetch>>

\* A caller invokes checkSEO with the html of a page
CheckSEO ==
  /\ pc = "idle"
  /\ \E page \in SeoPageInputs :
       /\ seoIn' = page
       /\ seoOut' \in checkSEO(page)
  /\ pc' = "scored"
  /\ UNCHANGED <<doc, url, analysis, recIn, recOut, rerun, schemaIn, schemaOut,
                 widthIn, widthOut, fetch>>

\* What a step of fetchHTMLWithPuppeteer leaves alone
FetchStep ==
  UNCHANGED <<pc, doc, url, analysis, recIn, recOut, rerun, schemaIn, schemaOut,
              widthIn, widthOut, seoIn, seoOut>>

\* checkSEO with waitForJS calls fetchHTMLWithPuppeteer(url)
FetchHTMLWithPuppeteer ==
  /\ pc = "idle"
  /\ pc' = "fetching"
  /\ fetch' = fetchStart
  /\ UNCHANGED <<doc, url, analysis, recIn, recOut, rerun, schemaIn, schemaOut,
                 widthIn, widthOut, seoIn, seoOut>>

\* browser = await puppeteer.launch(...)
Launch ==
  /\ pc = "fetching" /\ fetch.at = "launch"
  /\ \/ fetch' = [resolved(fetch, "newPage") EXCEPT !.browser = "open"]
     \/ fetch' = rejected(fetch)
  /\ FetchStep

\* page = await browser.newPage()
NewPage ==
  /\ pc = "fetching" /\ fetch.at = "newPage"
  /\ \/ fetch' = [resolved(fetch, "setCacheEnabled") EXCEPT !.page = "open"]
     \/ fetch' = rejected(fetch)
  /\ FetchStep

\* await page.setCacheEnabled, setJavaScriptEnabled, setUserAgent, goto
PageAwait ==
  /\ pc = "fetching" /\ fetch.at \in DOMAIN afterAwait
  /\ \/ fetch' = resolved(fetch, afterAwait[fetch.at])
     \/ fetch' = rejected(fetch)
  /\ FetchStep

\* await new Promise(resolve => setTimeout(resolve, jsWaitTime))
SetTimeout ==
  /\ pc = "fetching" /\ fetch.at = "setTimeout"
  /\ fetch' = resolved(fetch, "waitDescription")
  /\ FetchStep

\* waitForDynamicContent: await page.waitForFunction(...) resolves, or rejects
\* and the catch around it logs the timeout
WaitForFunction ==
  /\ pc = "fetching" /\ fetch.at \in DOMAIN afterWait
  /\ fetch' = resolved(fetch, afterWait[fetch.at])
  /\ FetchStep

\* const htmlContent = await page.content(); return htmlContent
Content ==
  /\ pc = "fetching" /\ fetch.at = "content"
  /\ \/ fetch' = [resolved(fetch, "finally") EXCEPT !.html = Str(<<>>)]
     \/ fetch' = rejected(fetch)
  /\ FetchStep

\* finally { if (page) { await page.close(); }
ClosePage ==
  /\ pc = "fetching" /\ fetch.at = "finally"
  /\ \/ fetch' = pageClosed(fetch)
     \/ fetch.page # "null" /\ fetch' = pageCloseRejected(fetch)
  /\ FetchStep

\* if (browser) { await browser.close(); } }
CloseBrowser ==
  /\ pc = "fetching" /\ fetch.at = "closeBrowser"
  /\ \/ fetch' = browserClosed(fetch)
     \/ fetch.browser # "null" /\ fetch' = browserCloseRejected(fetch)
  /\ FetchStep

\* the call completes: the html is returned or the exception is thrown
FetchCompletes ==
  /\ pc = "fetching" /\ fetch.at = "completed"
  /\ pc' = "fetched"
  /\ UNCHANGED <<doc, url, analysis, recIn, recOut, rerun, schemaIn, schemaOut,
                 widthIn, widthOut, seoIn, seoOut, fetch>>

\* The caller has its result; the arguments and the result are per call
Respond ==
  /\ pc \notin {"idle", "fetching"}
  /\ pc' = "idle"
  /\ doc' = NoCall
  /\ url' = NoCall
  /\ analysis' = NoCall
  /\ recIn' = NoCall
  /\ recOut' = NoCall
  /\ rerun' = NoCall
  /\ schemaIn' = NoCall
  /\ schemaOut' = NoCall
  /\ widthIn' = NoCall
  /\ widthOut' = NoCall
  /\ seoIn' = NoCall
  /\ seoOut' = NoCall
  /\ fetch' = NoCall

Next ==
  \/ AnalyzePage
  \/ GenerateRecommendations
  \/ GenerateSchema
  \/ CleanSchema
  \/ CheckStructuredData
  \/ AnalyzeStructuredData
  \/ CalculateFullWidthLength
  \/ CheckSEO
  \/ FetchHTMLWithPuppeteer
  \/ Launch
  \/ NewPage
  \/ PageAwait
  \/ SetTimeout
  \/ WaitForFunction
  \/ Content
  \/ ClosePage
  \/ CloseBrowser
  \/ FetchCompletes
  \/ AnalyzeAgain
  \/ RecommendAgain
  \/ Respond

Spec == Init /\ [][Next]_vars

---------------------------------------------------------------------------
(* Properties of generateRecommendations *)

Recommended == pc = "recommended"

\* The schema names of a list of items, as a set and in order
Schemas(list) == {list[i].schema : i \in 1..Len(list)}
SchemaSeq(list) == [i \in 1..Len(list) |-> list[i].schema]

\* The three lists of the result
Lists == recOut.val.recommendations

\* Every '@type' value of every entry of existingSchemas.jsonLd: the string of
\* a scalar '@type', every element of an array-valued one
TypeNames(type) ==
  IF type.js = "string" THEN {type.v}
  ELSE IF type.js = "array" THEN {type.v[k] : k \in 1..Len(type.v)}
  ELSE {}

EntryTypeNames(entry) ==
  IF IsNullish(entry) \/ ~Has(entry, "data") \/ IsNullish(entry.data)
     \/ ~Has(entry.data, "type")
    THEN {} ELSE TypeNames(entry.data.type)

ExistingTypeNames(existingSchemas) ==
  IF IsNullish(existingSchemas) \/ ~Has(existingSchemas, "jsonLd")
     \/ existingSchemas.jsonLd.js # "array"
    THEN {}
    ELSE UNION {EntryTypeNames(existingSchemas.jsonLd.v[i]) :
                  i \in 1..Len(existingSchemas.jsonLd.v)}

\* The tiers the specification gives a page type: its own, and those of
\* Article for a type that is not configured
TierOf(pageType) ==
  IF pageType \in {"Article", "Product", "LocalBusiness", "Recipe", "Event",
                   "FAQ", "HowTo", "Review", "JobPosting", "Course"}
    THEN recommendations[pageType] ELSE recommendations.Article

Range(s) == {s[i] : i \in 1..Len(s)}

\* The primaryType of a classification that is not null ('Article' when it
\* has none)
PrimaryTypeOf(pageAnalysis) ==
  IF Has(pageAnalysis, "primaryType") /\ pageAnalysis.primaryType # ""
    THEN pageAnalysis.primaryType ELSE "Article"

\* The arguments name an inventory whose jsonLd is a list without null
\* entries (or absent), a classification and page data that are not null
WellFormedInput ==
  /\ ~IsNullish(recIn.pageAnalysis)
  /\ recIn.pageData # Null
  /\ recIn.existingSchemas # Null
  /\ Has(recIn.existingSchemas, "jsonLd") =>
       /\ recIn.existingSchemas.jsonLd.js = "array"
       /\ \A i \in 1..Len(recIn.existingSchemas.jsonLd.v) :
            ~IsNullish(recIn.existingSchemas.jsonLd.v[i])

\* No list of existingSchemas.jsonLd, or an empty one
EmptyInventory ==
  \/ recIn.existingSchemas \in {Undefined, EmptyObject}
  \/ /\ recIn.existingSchemas # Null
     /\ Has(recIn.existingSchemas, "jsonLd")
     /\ recIn.existingSchemas.jsonLd = Arr(<<>>)

IsDefaultResult(result) ==
  /\ Len(result.recommendations.missing) = 1
  /\ result.recommendations.missing[1].schema = "Article"
  /\ result.recommendations.missing[1].priority = "critical"
  /\ result.recommendations.improvements = <<>>
  /\ result.recommendations.optional = <<>>

\* C2 as stated: generateRecommendations never throws, and for a null
\* classification, a null inventory or a jsonLd that is not a list it returns
\* the default result.
C2_DefaultOnMalformedInput ==
  Recommended =>
    /\ recOut.ok
    /\ ( \/ recIn.pageAnalysis = Null
         \/ recIn.existingSchemas = Null
         \/ /\ Has(recIn.existingSchemas, "jsonLd")
            /\ recIn.existingSchemas.jsonLd.js # "array" )
       => IsDefaultResult(recOut.val)

\* C2 amended: generateRecommendations never throws, and for a null
\* classification, a null inventory or a jsonLd that is neither a list nor
\* null it returns the default result (a null jsonLd is read as no list).
C2_DefaultOnThrowingInput ==
  Recommended =>
    /\ recOut.ok
    /\ ( \/ recIn.pageAnalysis = Null
         \/ recIn.existingSchemas = Null
         \/ /\ Has(recIn.existingSchemas, "jsonLd")
            /\ ~IsNullish(recIn.existingSchemas.jsonLd)
            /\ recIn.existingSchemas.jsonLd.js # "array" )
       => IsDefaultResult(recOut.val)

\* C2's case: a classification of a type other than Article, with a jsonLd
\* that is a string, is answered by the default result
C2_Witness ==
  /\ Recommended
  /\ recIn.pageAnalysis # Null
  /\ PrimaryTypeOf(recIn.pageAnalysis) = "Product"
  /\ recIn.existingSchemas # Null
  /\ Has(recIn.existingSchemas, "jsonLd")
  /\ recIn.existingSchemas.jsonLd.js = "string"
  /\ recOut.ok
  /\ IsDefaultResult(recOut.val)

\* C3 as stated: no list of any result (normal or fallback path) names a
\* schema that is the '@type' of an entry of existingSchemas.jsonLd.
C3_NoPresentSchemaRecommended ==
  Recommended =>
    (Schemas(Lists.missing) \cup Schemas(Lists.improvements)
       \cup Schemas(Lists.optional))
      \cap ExistingTypeNames(recIn.existingSchemas) = {}

\* C4 as stated: the names of missing, improvements and optional are within
\* the primary, secondary and optional tier of the classification's
\* primaryType.
C4_WithinTiersOfClassification ==
  (Recommended /\ recIn.pageAnalysis # Null) =>
    LET tiers == TierOf(PrimaryTypeOf(recIn.pageAnalysis))
    IN  /\ Schemas(Lists.missing) \subseteq Range(tiers.primary)
        /\ Schemas(Lists.improvements) \subseteq Range(tiers.secondary)
        /\ Schemas(Lists.optional) \subseteq Range(tiers.optional)

\* C4 amended: the names of missing, improvements and optional are within the
\* primary, secondary and optional tier of the pageType the result reports:
\* the classification's primaryType on the normal path, Article on the
\* fallback path.
C4_WithinTiersOfPageType ==
  Recommended =>
    LET tiers == TierOf(recOut.val.pageType)
    IN  /\ recIn.pageAnalysis # Null /\ WellFormedInput
           => recOut.val.pageType = PrimaryTypeOf(recIn.pageAnalysis)
        /\ Schemas(Lists.missing) \subseteq Range(tiers.primary)
        /\ Schemas(Lists.improvements) \subseteq Range(tiers.secondary)
        /\ Schemas(Lists.optional) \subseteq Range(tiers.optional)

\* C4's case: a page of a type other than Article whose inventory holds a
\* schema of its secondary tier gets the rest of its tiers
C4_Witness ==
  /\ Recommended
  /\ WellFormedInput
  /\ PrimaryTypeOf(recIn.pageAnalysis) = "Review"
  /\ "Organization" \in ExistingTypeNames(recIn.existingSchemas)
  /\ Schemas(Lists.missing) = {"Review"}
  /\ Schemas(Lists.improvements) = {"Product", "Rating"}
  /\ Len(Lists.optional) = 3

\* C5 as stated: on a well-formed inventory, a schema named at any position
\* of an array-valued (or by a scalar) '@type' counts as present and is in
\* none of the lists.
C5_EveryTypeOfAnArrayIsPresent ==
  (Recommended /\ WellFormedInput) =>
    \A name \in ExistingTypeNames(recIn.existingSchemas) :
      /\ name \notin Schemas(Lists.missing)
      /\ name \notin Schemas(Lists.improvements)
      /\ name \notin Schemas(Lists.optional)

\* C6: in every result the lists missing, improvements and optional are
\* pairwise disjoint in schema names.
C6_ListsDisjoint ==
  Recommended =>
    /\ Schemas(Lists.missing) \cap Schemas(Lists.improvements) = {}
    /\ Schemas(Lists.missing) \cap Schemas(Lists.optional) = {}
    /\ Schemas(Lists.improvements) \cap Schemas(Lists.optional) = {}

\* C6's case: a result whose three lists are all non-empty
C6_Witness ==
  /\ Recommended
  /\ WellFormedInput
  /\ PrimaryTypeOf(recIn.pageAnalysis) = "Course"
  /\ Len(Lists.missing) = 2
  /\ Len(Lists.improvements) = 3
  /\ Len(Lists.optional) = 3

\* C7 as stated: a primaryType that is absent or not one of the ten page
\* types gets, with an empty inventory, the three tiers of Article.
C7_UnknownTypeGetsArticleTiers ==
  ( /\ Recommended
    /\ WellFormedInput
    /\ EmptyInventory
    /\ PrimaryTypeOf(recIn.pageAnalysis) \notin
         {"Article", "Product", "LocalBusiness", "Recipe", "Event", "FAQ",
          "HowTo", "Review", "JobPosting", "Course"} )
  => /\ SchemaSeq(Lists.missing) = <<"Article", "NewsArticle", "BlogPosting">>
     /\ SchemaSeq(Lists.improvements) = <<"Organization", "Person", "BreadcrumbList">>
     /\ SchemaSeq(Lists.optional) = <<"Comment", "Rating", "Review">>

HasFields(item) ==
  /\ Has(item, "reason")
  /\ Has(item, "difficulty") /\ item.difficulty \in {"easy", "medium", "hard"}
  /\ Has(item, "seoValue") /\ item.seoValue \in 0..100

\* C8 as stated: in every result the items of missing are critical, those of
\* improvements high, those of optional low, and every item carries a reason,
\* a difficulty (easy, medium or hard) and a seoValue in 0..100.
C8_ItemsCarryPriorityAndFields ==
  Recommended =>
    /\ \A i \in 1..Len(Lists.missing) :
         Lists.missing[i].priority = "critical" /\ HasFields(Lists.missing[i])
    /\ \A i \in 1..Len(Lists.improvements) :
         Lists.improvements[i].priority = "high"
         /\ HasFields(Lists.improvements[i])
    /\ \A i \in 1..Len(Lists.optional) :
         Lists.optional[i].priority = "low" /\ HasFields(Lists.optional[i])

PlanOf(list, bucket) ==
  /\ SchemaSeq(bucket) = SchemaSeq(list)
  /\ \A i \in 1..Len(bucket) :
       bucket[i].estimatedTime = getImplementationTime(bucket[i].schema)

\* C9 as stated: in every result implementation.immediate lists the schemas
\* of missing in order, shortTerm those of improvements, longTerm those of
\* optional, each entry with the estimated time of its schema.
C9_PlanPartitionsTheLists ==
  Recommended =>
    /\ PlanOf(Lists.missing, recOut.val.implementation.immediate)
    /\ PlanOf(Lists.improvements, recOut.val.implementation.shortTerm)
    /\ PlanOf(Lists.optional, recOut.val.implementation.longTerm)

---------------------------------------------------------------------------
(* Properties of analyzePage *)

Analyzed == pc = "analyzed"

\* The arguments with which no step of analyzePage throws: a document handle
\* and a url that is a string or absent
NormalPath ==
  /\ doc.js = "function"
  /\ IsNullish(url) \/ url.js = "string"

\* C1: analyzePage never throws; when a step throws (the handle is no
\* document, or the scoring meets a url that is no string) it returns
\* primaryType Article, confidence 0, no secondaryTypes and no scores.
C1_DefaultOnError ==
  Analyzed =>
    /\ analysis.ok
    /\ ~NormalPath =>
         /\ analysis.val.primaryType = "Article"
         /\ analysis.val.confidence = 0
         /\ analysis.val.secondaryTypes = <<>>
         /\ DOMAIN analysis.val.allScores = {}

\* C1's case: the extraction succeeded on a document that scores for Recipe,
\* the scoring threw on the url, and the default came back
C1_Witness ==
  /\ Analyzed
  /\ doc.js = "function"
  /\ doc.body = RecipeBody
  /\ ~IsNullish(url) /\ url.js = "number"
  /\ analysis.ok
  /\ analysis.val.primaryType = "Article"
  /\ DOMAIN analysis.val.allScores = {}

\* C10: on the normal path primaryType has a maximal final score,
\* secondaryTypes are the types ranked second and third by descending score
\* (at most two, none of them primaryType), and confidence is
\* allScores[primaryType].
C10_RankingByScore ==
  (Analyzed /\ NormalPath) =>
    LET result == analysis.val
        score == result.allScores
        second == result.secondaryTypes
        top == {result.primaryType} \cup {second[i] : i \in 1..Len(second)}
    IN  /\ result.primaryType \in PageTypes
        /\ DOMAIN score = PageTypes
        /\ \A t \in PageTypes : score[result.primaryType] >= score[t]
        /\ Len(second) = 2
        /\ Cardinality(top) = 3
        /\ score[second[1]] >= score[second[2]]
        /\ \A t \in PageTypes \ top : score[second[2]] >= score[t]
        /\ result.confidence = score[result.primaryType]

\* C10's case: three different positive scores, the highest not that of the
\* first type of the table
C10_Witness ==
  /\ Analyzed
  /\ NormalPath
  /\ analysis.val.primaryType = "FAQ"
  /\ analysis.val.secondaryTypes = <<"Product", "Review">>
  /\ analysis.val.allScores["FAQ"] > analysis.val.allScores["Product"]
  /\ analysis.val.allScores["Product"] > analysis.val.allScores["Review"]
  /\ analysis.val.allScores["Review"] > analysis.val.allScores["Article"]
  /\ analysis.val.confidence = 54

---------------------------------------------------------------------------
(* Ties and degenerate documents *)

\* The first type, in the order of the signature table, whose final score no
\* type exceeds
FirstMaximal(scores) ==
  TypeOrder[CHOOSE i \in 1..Len(TypeOrder) :
              /\ \A j \in 1..Len(TypeOrder) :
                   scores[TypeOrder[j]] <= scores[TypeOrder[i]]
              /\ \A j \in 1..(i - 1) :
                   scores[TypeOrder[j]] < scores[TypeOrder[i]]]

\* A document with no title, no node in its body (so no special element)
DegenerateDocument ==
  /\ doc.js = "function"
  /\ doc.title = Undefined
  /\ doc.body = EmptyBody

---------------------------------------------------------------------------
(* Determinism *)

---------------------------------------------------------------------------
(* Claims about SchemaTemplates *)

Generated == pc = "generated"

\* The name asked for is one of the fifteen of the catalogue
CatalogueName == schemaIn.schemaType \in {TemplateNames[k] : k \in 1..Len(TemplateNames)}

\* A text has a substring of the form {{...}}
hasPlaceholder(text) ==
  \E i, j \in 1..Len(text) :
    /\ i + 2 <= j
    /\ j + 1 <= Len(text)
    /\ SubSeq(text, i, i + 1) = <<123, 123>>  \* '{{'
    /\ SubSeq(text, j, j + 1) = <<125, 125>>  \* '}}'

\* A value holds, at some depth, a string with such a substring
RECURSIVE holdsPlaceholder(_)
holdsPlaceholder(value) ==
  CASE value.js = "string" -> hasPlaceholder(value.v)
    [] value.js = "array" -> \E k \in 1..Len(value.v) : holdsPlaceholder(value.v[k])
    [] value.js = "json" ->
         \E k \in 1..Len(value.entries) : holdsPlaceholder(value.entries[k].value)
    [] OTHER -> FALSE

\* C13: for each of the fifteen templates and every page, the object that
\* fillTemplate returns holds at no depth a string with a substring {{...}}.
\* Violated: the Organization, Person and BreadcrumbList templates name
\* properties that no extractor supplies, and cleanSchema removes a
\* placeholder only where it is named after its own property.
C13_NoPlaceholderLeft ==
  (Generated /\ CatalogueName /\ schemaOut.success)
    => ~holdsPlaceholder(schemaOut.schema)

\* The schema types with an extraction of their own
TypedNames ==
  {"Article", "NewsArticle", "BlogPosting", "Product", "LocalBusiness", "Recipe",
   "Event", "FAQPage", "HowTo", "Review", "JobPosting", "Course"}

\* C14: for each schema type with an extraction of its own and any document,
\* every extractor returns without throwing, the template is filled and
\* generateSchema reports success = true.
\* Violated: the extractors of Recipe, Event, HowTo, Review, JobPosting and
\* Course call methods the class does not define, extractKeywords reads
\* pageData.headings that the callers do not pass, and extractPrice reads
\* pageData.bodyText that the default pageData {} does not have.
C14_ExtractionNeverThrows ==
  (Generated /\ schemaIn.schemaType \in TypedNames) => schemaOut.success

\* C15: for a schema name outside the fifteen of the catalogue getTemplate
\* returns null and generateSchema returns, without an error reaching the
\* caller, the generic template (@context, @type = the name asked for, name,
\* description); for each of the fifteen names getTemplate returns a template.
\* Violated: templates[schemaType] finds what the object literal inherits
\* from Object.prototype, so 'constructor' and '__proto__' get a value that
\* is not null, and for '__proto__' the schema returned is the empty object.
C15_UnknownNameGetsGenericTemplate ==
  Generated =>
    IF CatalogueName THEN getTemplate(schemaIn.schemaType) # Null
    ELSE /\ getTemplate(schemaIn.schemaType) = Null
         /\ schemaOut.schema = getBasicTemplate(schemaIn.schemaType)

\* Position i of a text starts a mark 'Q:' or 'A:' (the letter, white space
\* or none, a colon)
markAt(text, i, letter) == prefixed(SubSeq(text, i, Len(text)), letter)

\* The marks 'Q:' of a text that are followed by a mark 'A:' before the next
\* 'Q:': the question/answer pairs the text is written with
pairsIn(text) ==
  {q \in 1..Len(text) :
     /\ markAt(text, q, 81)
     /\ \E a \in (q + 1)..Len(text) :
          /\ markAt(text, a, 65)
          /\ \A k \in (q + 1)..a : ~markAt(text, k, 81)}

\* The entries extractFAQData finds in the document of the call
faqItems == get(Json(extractFAQData(doc, schemaIn.pageData).val), <<102, 97, 113, 73, 116, 101, 109, 115>>).v  \* faqItems

\* C18: for a page whose body holds n >= 1 question/answer pairs written
\* 'Q: ...' followed by 'A: ...', extractFAQData returns exactly n entries,
\* each with the question and the answer without their marks.
\* Violated: a pair is found only where the question starts the text of an
\* element and the answer starts the text of the next sibling element, the
\* latter not trimmed.
C18_OneEntryPerPair ==
  (Generated /\ schemaIn.schemaType = "FAQPage"
     /\ pairsIn(bodyTextOf(doc)) # {})
    => /\ Len(faqItems) = Cardinality(pairsIn(bodyTextOf(doc)))
       /\ \A k \in 1..Len(faqItems) :
            /\ ~prefixed(get(faqItems[k], <<110, 97, 109, 101>>).v, 81)  \* name
            /\ ~prefixed(get(get(faqItems[k], <<97, 99, 99, 101, 112, 116, 101, 100, 65, 110, 115, 119, 101, 114>>), <<116, 101, 120, 116>>).v, 65)  \* acceptedAnswer, text

---------------------------------------------------------------------------
(* Claims about the expected benefits *)

\* The estimates of the result, and the numbers of items they are computed from
Benefits == recOut.val.expectedBenefits

CriticalCount == Len(Lists.missing)

HighCount == Len(Lists.improvements)

Least(a, b) == IF a <= b THEN a ELSE b

\* The four estimates are there and follow the formulas
FollowsFormulas ==
  /\ DOMAIN Benefits = {"richSnippets", "searchRanking", "clickThroughRate", "localSearch"}
  /\ Benefits.richSnippets.probability = Least(90, 30 * CriticalCount + 15 * HighCount)
  /\ Benefits.searchRanking.improvement = Least(20, 5 * CriticalCount + 3 * HighCount)
  /\ Benefits.clickThroughRate.improvement = Least(25, 8 * CriticalCount + 5 * HighCount)
  /\ Benefits.localSearch.visibility =
       IF Schemas(Lists.missing) \cap {"LocalBusiness", "Organization"} # {}
         THEN 40 ELSE 10

\* The result is the one of the catch block
IsFallback == recOut.val = getDefaultRecommendations

\* C16 as stated: every output of generateRecommendations carries the four
\* estimates computed by the formulas from the numbers of its missing and
\* improvements items.
C16_FormulasOnEveryOutput == Recommended => FollowsFormulas

\* C16: an output of the try block carries the four estimates computed by
\* the formulas: richSnippets.probability = min(90, 30c + 15h),
\* searchRanking.improvement = min(20, 5c + 3h), clickThroughRate.improvement
\* = min(25, 8c + 5h), localSearch.visibility = 40 if a missing item is
\* LocalBusiness or Organization and else 10; the output of the catch block
\* carries richSnippets.probability = 30 and no other estimate.
C16_FormulasOnNormalOutput ==
  Recommended =>
    IF IsFallback
      THEN /\ DOMAIN Benefits = {"richSnippets"}
           /\ Benefits.richSnippets.probability = 30
      ELSE FollowsFormulas

\* An output of the try block with missing and improvements items where the
\* caps of the three formulas decide
C16_Witness ==
  /\ Recommended
  /\ ~IsFallback
  /\ CriticalCount >= 1
  /\ HighCount >= 1
  /\ 30 * CriticalCount + 15 * HighCount > 90
  /\ Benefits.richSnippets.probability = 90
  /\ Benefits.searchRanking.improvement = 20
  /\ Benefits.clickThroughRate.improvement = 25

---------------------------------------------------------------------------
(* Claims about the full-width length *)

Measured == pc = "measured"

\* The characters (code points) of a string: a high surrogate followed by a
\* low one is one character
RECURSIVE codePoints(_, _)
codePoints(units, i) ==
  IF i > Len(units) THEN <<>>
  ELSE IF /\ units[i] \in 55296..56319
          /\ i < Len(units)
          /\ units[i + 1] \in 56320..57343
    THEN <<65536 + (units[i] - 55296) * 1024 + (units[i + 1] - 56320)>>
         \o codePoints(units, i + 2)
    ELSE <<units[i]>> \o codePoints(units, i + 1)

\* Hiragana, katakana, kanji (the CJK unified ideographs with their
\* extensions and the compatibility ideographs), the full-width forms and the
\* ideographic space
IsFullWidthCharacter(c) ==
  \/ c \in 12352..12447
  \/ c \in 12448..12543
  \/ c \in 19968..40959
  \/ c \in 13312..19903
  \/ c \in 63744..64255
  \/ c \in 131072..195103
  \/ c \in 65280..65519
  \/ c = 12288

\* Twice (full-width characters x 1 + other characters x 0.5)
lengthByCharacters(value) ==
  IF value = Null THEN 0
  ELSE LET chars == codePoints(value.v, 1)
           full == {k \in 1..Len(chars) : IsFullWidthCharacter(chars[k])}
       IN  2 * Cardinality(full) + (Len(chars) - Cardinality(full))

\* The code units the code counts 1: U+3040-30FF, U+4E00-9FAF, U+FF00-FFEF,
\* U+3000, U+3400-4DBF, U+F900-FAFF
FullWidthUnits ==
  (12352..12543) \cup (19968..40879) \cup (65280..65519) \cup {12288}
  \cup (13312..19903) \cup (63744..64255)

\* Twice (units counted 1 x 1 + other units x 0.5)
lengthByUnits(value) ==
  IF value = Null THEN 0
  ELSE LET full == {k \in 1..Len(value.v) : value.v[k] \in FullWidthUnits}
       IN  2 * Cardinality(full) + (Len(value.v) - Cardinality(full))

---------------------------------------------------------------------------
(* The recipe scenario *)

\* The document of the scenario: the title, and a body with the three lines
RecipeScenario ==
  /\ doc.js = "function"
  /\ doc.title = Str(<<40335, 32905, 12398, 29038, 36796, 12415, 12524, 12471, 12500>>)  \* '鶏肉の煮込みレシピ'
  /\ doc.body = RecipeBody
  /\ includes(bodyTextOf(doc), <<26448, 26009, 58, 32, 40335, 32905, 51, 48, 48, 103>>)  \* '材料: 鶏肉300g'
  /\ includes(bodyTextOf(doc), <<25163, 38918, 49, 58, 32, 37707, 12395, 27833, 12434, 20837, 12428, 12427>>)  \* '手順1: 鍋に油を入れる'
  /\ includes(bodyTextOf(doc), <<35519, 29702, 26178, 38291, 58, 32, 51, 48, 20998>>)  \* '調理時間: 30分'

\* C19: for the document with title '鶏肉の煮込みレシピ' whose body holds
\* '材料: 鶏肉300g', '手順1: 鍋に油を入れる' and '調理時間: 30分', the score
\* of Recipe, which includes the bonus of the recipe elements (15, doubled
\* 30), is strictly higher than the score of each other type, and analyzePage
\* returns primaryType Recipe.
C19_RecipeScenario ==
  (Analyzed /\ NormalPath /\ RecipeScenario) =>
    /\ hasRecipeElements(doc)
    /\ \A type \in PageTypes \ {"Recipe"} :
         analysis.val.allScores[type] < analysis.val.allScores["Recipe"]
    /\ analysis.val.primaryType = "Recipe"

\* The scenario analysed with no url and no meta description: Recipe scores
\* 25 (doubled 50)
C19_Witness ==
  /\ Analyzed
  /\ NormalPath
  /\ RecipeScenario
  /\ url = Undefined
  /\ doc.metaDescription = Undefined
  /\ analysis.val.allScores["Recipe"] = 50
  /\ analysis.val.primaryType = "Recipe"

---------------------------------------------------------------------------
(* Hits per pattern *)

\* The page data the scores were computed from
ScoredPageData == analysis.val.analysisDetails.pageData

\* The score of a type, doubled, when each url pattern, title pattern and
\* content pattern counts 1 if the text includes it and else 0 (the keywords
\* counted as countMatches counts them)
scoreByContainment(type, pageData) ==
  LET pattern == patterns[type]
  IN  countMatches(pageData.title, pattern.keywords) * weights.title
      + countPatternMatches(pageData.title, pattern.titlePatterns) * weights.title
      + countMatches(pageData.metaDescription, pattern.keywords) * weights.meta
      + countMatches(join(pageData.headings, 1), pattern.keywords) * weights.headings
      + countPatternMatches(pageData.url.v, pattern.urlPatterns) * weights.url
      + countMatches(pageData.bodyText, pattern.keywords) * weights.content
      + countPatternMatches(pageData.bodyText, pattern.contentPatterns) * weights.content

\* C20: in the score of a type each url pattern, title pattern and content
\* pattern contributes at most one hit (0 or 1 by substring containment), so
\* a body that holds a content pattern several times scores as one that holds
\* it once.
\* Violated: the content patterns go through countMatches, which counts every
\* occurrence.
C20_OneHitPerPattern ==
  (Analyzed /\ NormalPath) =>
    \A type \in PageTypes :
      analysis.val.allScores[type]
        = scoreByContainment(type, ScoredPageData)
          + bonusOf(type, ScoredPageData.specialElements)

---------------------------------------------------------------------------
(* Keyword hits *)

\* The occurrences of a keyword in a text, letters compared without regard to
\* case: the positions at which the keyword stands (no keyword of the
\* signatures overlaps itself)
occurrencesOf(text, keyword) ==
  Cardinality({i \in 1..(Len(text) - Len(keyword) + 1) :
                 \A j \in 1..Len(keyword) :
                   toLowerCaseUnit(text[i + j - 1]) = toLowerCaseUnit(keyword[j])})

RECURSIVE keywordHits(_, _, _)
\* The occurrences of the keywords from keyword k on, summed
keywordHits(text, keywords, k) ==
  IF k > Len(keywords) THEN 0
  ELSE occurrencesOf(text, keywords[k]) + keywordHits(text, keywords, k + 1)

\* What the title patterns, the url patterns and the content patterns add to
\* the score of a type (doubled)
patternScore(type, pageData) ==
  countPatternMatches(pageData.title, patterns[type].titlePatterns) * weights.title
  + countPatternMatches(pageData.url.v, patterns[type].urlPatterns) * weights.url
  + countMatches(pageData.bodyText, patterns[type].contentPatterns) * weights.content

\* C21: every occurrence of a keyword of a type's signature, matched without
\* regard to case and counted as often as it occurs, adds 3.0 to the base
\* score of the type when it occurs in the title, 2.5 in the meta
\* description, 2.0 in the joined headings and 1.0 in the body text (doubled:
\* 6, 5, 4 and 2); the rest of the score is what the patterns and the bonus
\* add.
C21_KeywordHitsCompound ==
  (Analyzed /\ NormalPath) =>
    \A type \in PageTypes :
      analysis.val.allScores[type]
        = 6 * keywordHits(ScoredPageData.title, patterns[type].keywords, 1)
          + 5 * keywordHits(ScoredPageData.metaDescription, patterns[type].keywords, 1)
          + 4 * keywordHits(join(ScoredPageData.headings, 1), patterns[type].keywords, 1)
          + 2 * keywordHits(ScoredPageData.bodyText, patterns[type].keywords, 1)
          + patternScore(type, ScoredPageData)
          + bonusOf(type, ScoredPageData.specialElements)

\* A title that holds a keyword of Review twice, with a meta description, a
\* heading and a body that hold keywords
C21_Witness ==
  /\ Analyzed
  /\ NormalPath
  /\ keywordHits(ScoredPageData.title, patterns["Review"].keywords, 1) = 2
  /\ keywordHits(ScoredPageData.metaDescription, patterns["Review"].keywords, 1) > 0
  /\ keywordHits(join(ScoredPageData.headings, 1), patterns["Event"].keywords, 1) > 0
  /\ keywordHits(ScoredPageData.bodyText, patterns["Event"].keywords, 1) > 0
  /\ analysis.val.allScores["Review"] >= 17

---------------------------------------------------------------------------
(* The bonus of the special elements *)

\* The bonus of a type as the table of the bonuses gives it, doubled: price
\* 10 for Product; review 8 for Review and 5 for Product; event 12 for Event;
\* recipe 15 for Recipe; faq 15 for FAQ; job 12 for JobPosting; course 10 for
\* Course
expectedBonus(type, flags) ==
  CASE type = "Product" ->
         (IF flags.price THEN 20 ELSE 0) + (IF flags.review THEN 10 ELSE 0)
    [] type = "Review" -> IF flags.review THEN 16 ELSE 0
    [] type = "Event" -> IF flags.event THEN 24 ELSE 0
    [] type = "Recipe" -> IF flags.recipe THEN 30 ELSE 0
    [] type = "FAQ" -> IF flags.faq THEN 30 ELSE 0
    [] type = "JobPosting" -> IF flags.job THEN 24 ELSE 0
    [] type = "Course" -> IF flags.course THEN 20 ELSE 0
    [] OTHER -> 0

\* C22: the final score of each type is its base score plus exactly the
\* bonuses of the flags that are set, each applied whatever the base score and
\* the other flags are: price +10 Product; review +8 Review and +5 Product;
\* event +12 Event; recipe +15 Recipe; faq +15 FAQ; job +12 JobPosting; course
\* +10 Course; Article, LocalBusiness and HowTo get no bonus.
C22_FinalScoreIsBasePlusBonuses ==
  (Analyzed /\ NormalPath) =>
    /\ \A type \in PageTypes :
         analysis.val.allScores[type]
           = calculateSingleTypeScore(type, ScoredPageData).val
             + expectedBonus(type, ScoredPageData.specialElements)
    /\ \A type \in {"Article", "LocalBusiness", "HowTo"} :
         analysis.val.allScores[type]
           = calculateSingleTypeScore(type, ScoredPageData).val

\* A page with price and review elements: Product gets both bonuses, 15, and
\* Review gets 8, on top of base scores that are not 0
C22_Witness ==
  /\ Analyzed
  /\ NormalPath
  /\ ScoredPageData.specialElements.price
  /\ ScoredPageData.specialElements.review
  /\ calculateSingleTypeScore("Product", ScoredPageData).val > 0
  /\ analysis.val.allScores["Product"]
       = calculateSingleTypeScore("Product", ScoredPageData).val + 30
  /\ analysis.val.allScores["Review"]
       = calculateSingleTypeScore("Review", ScoredPageData).val + 16

---------------------------------------------------------------------------
(* Placeholders and extracted fields *)

\* The names between {{ and }} in a text
placeholdersIn(text) ==
  {SubSeq(text, p[1] + 2, p[2] - 1) :
     p \in {q \in (1..Len(text)) \X (1..Len(text)) :
              /\ q[1] + 2 <= q[2]
              /\ q[2] + 1 <= Len(text)
              /\ SubSeq(text, q[1], q[1] + 1) = <<123, 123>>  \* '{{'
              /\ SubSeq(text, q[2], q[2] + 1) = <<125, 125>>  \* '}}'
              /\ \A n \in (q[1] + 2)..(q[2] - 1) : text[n] \notin {123, 125}}}

\* The names of the placeholders of a template, at every depth
RECURSIVE placeholderNames(_)
placeholderNames(value) ==
  CASE value.js = "string" -> placeholdersIn(value.v)
    [] value.js = "array" ->
         UNION {placeholderNames(value.v[k]) : k \in 1..Len(value.v)}
    [] value.js = "json" ->
         UNION {placeholderNames(value.entries[k].value) : k \in 1..Len(value.entries)}
    [] OTHER -> {}

\* The names of the fields that an extraction populated
fieldNames(extracted) == {extracted[k].key : k \in 1..Len(extracted)}

\* What extractDataFromPage gives for the template and the page of the call
ExtractedForTemplate ==
  extractDataFromPage(schemaIn.pageData, doc,
                      get(templates[schemaIn.schemaType], <<64, 116, 121, 112, 101>>),  \* @type
                      schemaIn.today)

\* C23: for each of the fifteen templates of the catalogue, the names of the
\* {{placeholders}} of the template are the names of the fields that
\* extractDataFromPage populates for the @type of the template: no placeholder
\* without a field, no field without a placeholder.
\* Violated: title, description and url are extracted for every type, the
\* templates of Organization, Person and BreadcrumbList have no extraction of
\* their own, and six extractions throw before they populate a field.
C23_PlaceholdersMatchExtractedFields ==
  (Generated /\ CatalogueName) =>
    /\ ExtractedForTemplate.ok
    /\ fieldNames(ExtractedForTemplate.val) = placeholderNames(templates[schemaIn.schemaType])

---------------------------------------------------------------------------
(* The recommendations for a local business *)

\* The items of businessSpecific of a given type
ItemsOfType(type) ==
  {i \in 1..Len(recOut.val.businessSpecific) :
     recOut.val.businessSpecific[i].type = type}

\* A keyword of the category occurs in the title or in the body text
CategoryMatches(pageData, k) ==
  \E n \in 1..Len(businessTypes[k].keywords) :
    \/ includes(toLowerCase(textOf(pageData, "title")),
                toLowerCase(businessTypes[k].keywords[n]))
    \/ includes(toLowerCase(textOf(pageData, "bodyText")),
                toLowerCase(businessTypes[k].keywords[n]))

\* The categories in the order Restaurant, Store, Hotel, Hospital, School,
\* Gym, BeautySalon
CategoryOrder ==
  <<"Restaurant", "Store", "Hotel", "Hospital", "School", "Gym", "BeautySalon">>

\* The body text mentions business hours, an address or a location
MentionsBusinessHours(pageData) ==
  \E w \in {<<21942, 26989, 26178, 38291>>,  \* 営業時間
            <<38283, 24215>>,  \* 開店
            <<38281, 24215>>,  \* 閉店
            <<23450, 20241, 26085>>} :  \* 定休日
    includes(textOf(pageData, "bodyText"), w)

MentionsLocation(pageData) ==
  \E w \in {<<20303, 25152>>,  \* 住所
            <<25152, 22312, 22320>>,  \* 所在地
            <<12450, 12463, 12475, 12473>>,  \* アクセス
            <<22320, 22259>>} :  \* 地図
    includes(textOf(pageData, "bodyText"), w)

\* The page data generateRecommendations works with: {} for undefined
GivenPageData ==
  IF recIn.pageData = Undefined THEN EmptyObject ELSE recIn.pageData

\* What the claim says of businessSpecific for the primaryType of the
\* classification
BusinessSpecificAsStated ==
  IF PrimaryTypeOf(recIn.pageAnalysis) # "LocalBusiness"
    THEN recOut.val.businessSpecific = <<>>
    ELSE
      /\ Cardinality(ItemsOfType("BusinessType")) <= 1
      /\ \A k \in 1..Len(CategoryOrder) :
           (/\ CategoryMatches(GivenPageData, k)
            /\ \A j \in 1..(k - 1) : ~CategoryMatches(GivenPageData, j))
             => \E i \in ItemsOfType("BusinessType") :
                  recOut.val.businessSpecific[i].suggestion = CategoryOrder[k]
      /\ (\A k \in 1..Len(CategoryOrder) : ~CategoryMatches(GivenPageData, k))
           => ItemsOfType("BusinessType") = {}
      /\ Cardinality(ItemsOfType("OpeningHours"))
           = IF MentionsBusinessHours(GivenPageData) THEN 1 ELSE 0
      /\ Cardinality(ItemsOfType("GeoCoordinates"))
           = IF MentionsLocation(GivenPageData) THEN 1 ELSE 0
      /\ \A i \in 1..Len(recOut.val.businessSpecific) :
           recOut.val.businessSpecific[i].type
             \in {"BusinessType", "OpeningHours", "GeoCoordinates"}

\* C24 as stated: businessSpecific is empty when primaryType is not
\* LocalBusiness; when it is LocalBusiness, it holds at most one BusinessType
\* item, naming the first of the seven categories with a keyword in title +
\* body text (none when no category matches), an OpeningHours item iff the
\* body mentions business hours and a GeoCoordinates item iff it mentions an
\* address or a location.
C24_BusinessSpecificOnEveryOutput ==
  (Recommended /\ ~IsNullish(recIn.pageAnalysis) /\ recIn.pageData # Null)
    => BusinessSpecificAsStated

\* C24: the same for the outputs of the try block; a call that falls back to
\* the default recommendations returns an empty businessSpecific whatever the
\* page says.
C24_BusinessSpecificOnNormalOutput ==
  (Recommended /\ ~IsNullish(recIn.pageAnalysis) /\ recIn.pageData # Null) =>
    IF IsFallback THEN recOut.val.businessSpecific = <<>>
    ELSE BusinessSpecificAsStated

\* A local business whose title names a hotel and then a restaurant and whose
\* body mentions the access: Restaurant, the first category in order, and
\* GeoCoordinates, no OpeningHours
C24_Witness ==
  /\ Recommended
  /\ ~IsFallback
  /\ PrimaryTypeOf(recIn.pageAnalysis) = "LocalBusiness"
  /\ recIn.pageData # Undefined
  /\ CategoryMatches(recIn.pageData, 1)
  /\ CategoryMatches(recIn.pageData, 3)
  /\ recOut.val.businessSpecific
       = <<[type |-> "BusinessType", suggestion |-> "Restaurant"],
           [type |-> "GeoCoordinates"]>>

---------------------------------------------------------------------------
(* Signatures, tiers, templates and extractions *)

\* The page type of the classification has a signature, a tier mapping, and
\* for every schema name of its primary tier a template and an extraction of
\* the name's own
InSync(pageType) ==
  /\ pageType \in DOMAIN patterns <=> pageType \in DOMAIN recommendations
  /\ pageType \in DOMAIN recommendations =>
       \A k \in 1..Len(recommendations[pageType].primary) :
         /\ getTemplate(recommendations[pageType].primary[k]) # Null
         /\ recommendations[pageType].primary[k] \in TypedNames

\* C25: the page types with a signature in the classifier are the page types
\* with a tier mapping in the recommender, and every schema name in the
\* primary tier of a page type has a template of the catalogue (getTemplate
\* is not null) and an extraction branch of its own.
\* Violated: the primary tier of Course names EducationEvent, for which
\* there is neither a template nor an extraction.
C25_SignatureMappingExtractorInSync ==
  /\ DOMAIN patterns = DOMAIN recommendations
  /\ (Recommended /\ ~IsNullish(recIn.pageAnalysis))
       => InSync(PrimaryTypeOf(recIn.pageAnalysis))

---------------------------------------------------------------------------
(* The cleanup pass *)

\* A value that the cleanup pass is to strip: null, '', {} or []
IsEmptyValue(value) ==
  \/ IsNullish(value)
  \/ value = Str(<<>>)
  \/ (value.js = "json" /\ value.entries = <<>>)
  \/ (value.js = "array" /\ value.v = <<>>)

\* No field of the value, at any depth and in the objects that are entries
\* of its arrays, holds an empty value
RECURSIVE NoEmptyField(_)
NoEmptyField(value) ==
  CASE value.js = "json" ->
         \A k \in 1..Len(value.entries) :
           /\ ~IsEmptyValue(value.entries[k].value)
           /\ NoEmptyField(value.entries[k].value)
    [] value.js = "array" -> \A k \in 1..Len(value.v) : NoEmptyField(value.v[k])
    [] OTHER -> TRUE

Cleaned == pc = "cleaned"

\* The fields of a cleaned object that are no object and no array have the
\* value they had before
KeepsValues(before, after) ==
  \A k \in 1..Len(after.entries) :
    after.entries[k].value.js \notin {"json", "array"}
      => \E n \in 1..Len(before.entries) : before.entries[n] = after.entries[k]

\* C26: after cleanSchema no field at any depth, the fields of the objects
\* that are entries of an array included, holds null, '', {} or []; a field
\* whose cleaned object or filtered array is empty is dropped, and a field
\* that is kept has its value.
\* Violated: the entries of an array are filtered, not cleaned, so an object
\* in an array keeps its '' and null fields, and {} and [] stay in an array.
C26_NoEmptyFieldAfterCleanup ==
  Cleaned =>
    /\ NoEmptyField(schemaOut)
    /\ KeepsValues(schemaIn.schema, schemaOut)

---------------------------------------------------------------------------
(* The JSON-LD blocks of the page as a negative filter *)

Checked == pc = "checked"
Detailed == pc = "detailed"

\* The '@type' names of the blocks of the page that parse
PresentTypes ==
  {doc.scripts[k].val.type.v :
     k \in {n \in 1..Len(doc.scripts) : doc.scripts[n].ok}}

\* The schema names of the three lists of the result
RecommendedSchemas ==
  Schemas(Lists.missing) \cup Schemas(Lists.improvements) \cup Schemas(Lists.optional)

\* C27: in SEOChecker.checkStructuredData, as in
\* DetailedAnalyzer.analyzeStructuredData, a schema name that is the '@type'
\* of a JSON-LD block of the page that parses appears in none of missing,
\* improvements and optional of the resulting recommendations.
\* Violated: checkStructuredData pushes the parsed data itself into jsonLd,
\* and findMissingSchemas reads schema.data['@type'], which such an entry
\* does not have.
C27_PresentTypesNotRecommended ==
  (Checked \/ Detailed) => PresentTypes \cap RecommendedSchemas = {}

---------------------------------------------------------------------------
(* The scores of checkSEO *)

Scored == pc = "scored" /\ seoOut.ok

CheckNames ==
  {"titleTag", "metaDescription", "headingStructure", "imageAltAttributes",
   "internalLinkStructure", "structuredData", "otherSEOElements"}

\* the img elements of the page with a non-empty alt
nonEmptyAlt(images) ==
  Cardinality({i \in 1..Len(images) :
                 images[i].js = "string" /\ images[i].v # <<>>})

\* C28: every score of the seven checks of checkSEO and the overall score lie
\* in 0..100, and imagesWithAlt is the number of img elements with a
\* non-empty alt, so it lies in 0..totalImages
C28_ScoresInRange ==
  Scored =>
    /\ \A name \in CheckNames : seoOut.val.checks[name].score \in 0..100
    /\ seoOut.val.overallScore \in 0..100
    /\ seoOut.val.checks.imageAltAttributes.imagesWithAlt
         = nonEmptyAlt(seoIn.images)
    /\ seoOut.val.checks.imageAltAttributes.imagesWithAlt
         \in 0..seoOut.val.checks.imageAltAttributes.totalImages

---------------------------------------------------------------------------
(* The browser of fetchHTMLWithPuppeteer *)

\* fetchHTMLWithPuppeteer has returned or thrown
Fetched == pc = "fetched"

\* C29: when fetchHTMLWithPuppeteer has launched a browser, browser.close()
\* has been called by the time the call completes, whether it returns the html
\* or throws and whichever await in between rejected (newPage, goto, content,
\* or page.close()): no launched browser is left open.
\* Violated: await page.close() stands before browser.close() in the same
\* finally block with no try around it, so when it rejects the exception
\* leaves the block and browser.close() is never called.
C29_LaunchedBrowserIsClosed ==
  (Fetched /\ fetch.browser # "null") =>
    /\ fetch.closeCalled
    /\ fetch.browser # "open"

---------------------------------------------------------------------------
(* The questions of a FAQPage *)

\* The Question objects extractFAQData finds in the page of the call
ExtractedFaqItems ==
  extractFAQData(doc, schemaIn.pageData).val[1].value  \* faqItems

\* generateSchema was asked for a FAQPage of a page with a Q/A pair
FaqPageGenerated ==
  /\ Generated
  /\ schemaIn.schemaType = "FAQPage"
  /\ Len(ExtractedFaqItems.v) >= 1

\* C30: when extractFAQData finds at least one Q/A pair, the FAQPage schema
\* that generateSchema returns has mainEntity equal to the array of the
\* extracted Question objects, each with its name and acceptedAnswer.text.
\* Violated: fillTemplate hands the array to String.prototype.replace, which
\* inserts its string form, so mainEntity is the text '[object Object]' once
\* per question, joined by commas.
C30_MainEntityIsExtractedQuestions ==
  FaqPageGenerated =>
    /\ schemaOut.success
    /\ get(schemaOut.schema,
           <<109, 97, 105, 110, 69, 110, 116, 105, 116, 121>>)  \* mainEntity
         = ExtractedFaqItems

=============================================================================
